---- MODULE Spec2Model ----
(***************************************************************************)
(* Model of the HVF guest-CPU / host-hypervisor interrupt injector of      *)
(* target/i386/hvf-utils/x86hvf.c.                                         *)
(*                                                                         *)
(* An interruption-information word (VMCS_IDT_VECTORING_INFO,              *)
(* VMCS_ENTRY_INTR_INFO) is modelled field by field:                       *)
(*   valid   bit 31        (VMCS_IDT_VEC_VALID, VMCS_INTR_VALID)           *)
(*   undef   bit 12        (the "undefined bit" of line 419)               *)
(*   errcode bit 11        (VMCS_INTR_DEL_ERRCODE)                         *)
(*   type    bits 8..10    (VMCS_INTR_T_MASK), by the VMCS_INTR_T_ name    *)
(*   vector  bits 0..7                                                     *)
(* cpu_state->interrupt_request is the set of CPU_INTERRUPT_ bits that are *)
(* set, VMCS_PRI_PROC_BASED_CTLS the set of window-exiting bits set.       *)
(* Every wvmcs call of a handler is appended to the write log of the       *)
(* cycle; the VM-entry fields are write-only for this code, so their       *)
(* content after a cycle is the last value logged, or what the cycle found *)
(* when nothing is logged.                                                 *)
(***************************************************************************)
EXTENDS Integers, Sequences, FiniteSets, TLC

(* ------------------------------ bounds -------------------------------- *)

\* interrupt lines the interrupt controller can return are 0..MaxLine
MaxLine == 1
\* VMCS_EXIT_INSTRUCTION_LENGTH ranges over 1..MaxInsLen
MaxInsLen == 2
\* VMCS_IDT_VECTORING_ERROR ranges over 0..MaxErr
MaxErr == 1

(* --------------------------- program constants ------------------------- *)

NMI_VEC == 2
EXCEPTION_BP == 3
EXCEPTION_OF == 4

IntrTypes ==
  {"HWINTR", "NMI", "HWEXCEPTION", "SWINTR", "PRIV_SWEXCEPTION", "SWEXCEPTION"}

ExitReasons == {"TASK_SWITCH", "OTHER"}

Vectors == {NMI_VEC, EXCEPTION_BP, EXCEPTION_OF}

\* what cpu_get_pic_interrupt can return: -1 (nothing) or a line
PicLines == -1 .. MaxLine

InsLens == 1 .. MaxInsLen

ErrCodes == 0 .. MaxErr

\* the requests another thread raises for the injector
InjectorRequests == {"NMI", "HARD"}

\* uint64_t info = 0
ZeroInfo ==
  [valid |-> FALSE, type |-> "HWINTR", errcode |-> FALSE, undef |-> FALSE,
   vector |-> 0]

\* the values the host can report in VMCS_IDT_VECTORING_INFO
IdtInfos ==
  [valid : BOOLEAN, type : IntrTypes, errcode : BOOLEAN, undef : BOOLEAN,
   vector : Vectors]

(* ------------------------------- state --------------------------------- *)

VARIABLES
  nmi_blocking,       \* VMCS_GUEST_INTERRUPTIBILITY & NMI_BLOCKING
  idt_info,           \* VMCS_IDT_VECTORING_INFO
  exit_reason,        \* VMCS_EXIT_REASON
  exit_ins_len,       \* VMCS_EXIT_INSTRUCTION_LENGTH
  idt_error,          \* VMCS_IDT_VECTORING_ERROR
  proc_ctls,          \* VMCS_PRI_PROC_BASED_CTLS window-exiting bits
  interrupt_request,  \* cpu_state->interrupt_request
  eflags_if,          \* EFLAGS(cpu_state) & IF_MASK
  interruptable,      \* cpu_state->hvf_x86->interruptable
  cycle,              \* record of the injector cycle that just ran
  prev_cycle,         \* record of the cycle right before it
  halted,             \* cpu_state->halted
  host_if,            \* IF bit of the host register HV_X86_RFLAGS
  ev,                 \* record of the hvf_process_events call that just ran
  race,               \* the owning thread inside a read-modify-write of
                      \* interrupt_request, and what the setters asked for
  seg,                \* a segment on its way through hvf_set_segment and
                      \* hvf_get_segment
  xs,                 \* extended state on its way through hvf_put_xsave and
                      \* hvf_get_xsave
  sync,               \* a hvf_put_registers / hvf_get_registers call
  rp                  \* the replay log, replay_state and the clock call that
                      \* just ran

vars ==
  <<nmi_blocking, idt_info, exit_reason, exit_ins_len, idt_error, proc_ctls,
    interrupt_request, eflags_if, interruptable, cycle, prev_cycle,
    halted, host_if, ev, race, seg, xs, sync, rp>>

\* what the injector and its environment never touch
aux_vars == <<halted, host_if, ev, race, seg, xs, sync, rp>>

\* what only the injector and its environment touch
injector_vars ==
  <<nmi_blocking, idt_info, exit_reason, exit_ins_len, idt_error, proc_ctls,
    interruptable, cycle, prev_cycle>>

host_vars == <<idt_info, exit_reason, exit_ins_len, idt_error>>

\* no injector cycle since the last step of the environment
NoCycle ==
  [ran |-> FALSE, irq |-> {}, blocking |-> FALSE, ctls |-> {},
   log |-> <<>>, pic |-> <<>>]

\* no hvf_process_events call since the last step of the environment
NoEvents ==
  [ran |-> FALSE, irq |-> {}, halted |-> FALSE, poll |-> <<>>,
   calls |-> <<>>, ret |-> FALSE]

\* nothing in progress
Idle == [pc |-> "idle"]

(* ------------------------- host API primitives ------------------------- *)

wvmcs(log, field, value) == Append(log, [field |-> field, value |-> value])

\* val = rvmcs(field); wvmcs(field, val | bit): the entry names the bit or-ed in
wvmcs_or(log, field, val, bit) ==
  Append(log, [field |-> field, value |-> val \cup {bit}, set |-> bit])

\* the values a cycle wrote to one field, in order
Written(log, field) ==
  LET idx == {i \in 1 .. Len(log) : log[i].field = field}
      F[i \in 0 .. Len(log)] ==
        IF i = 0 THEN <<>>
        ELSE IF i \in idx THEN Append(F[i - 1], log[i].value) ELSE F[i - 1]
  IN  F[Len(log)]

(* ------------------------ hvf_inject_interrupts ------------------------ *)

\* faulty variants of line 413: the NMI override dropped, or taken on a task switch too
ForceAllowNmi_Never(intr_type, reason) == FALSE

ForceAllowNmi_IgnoresReason(intr_type, reason) == intr_type = "NMI"

\* line 413
ForceAllowNmi(intr_type, reason) ==
  intr_type = "NMI" /\ reason # "TASK_SWITCH"

\* line 418
ReinjectAllowed(allow_nmi, intr_type) ==
  allow_nmi \/ intr_type # "NMI"

\* faulty variant of lines 420-422: the privileged software exception is left
\* out
IsSoftwareType_NoPriv(intr_type) ==
  intr_type \in {"SWINTR", "SWEXCEPTION"}

\* lines 420-422
IsSoftwareType(intr_type) ==
  intr_type \in {"SWINTR", "PRIV_SWEXCEPTION", "SWEXCEPTION"}

\* line 426
IsBpOrOf(vector) ==
  vector = EXCEPTION_BP \/ vector = EXCEPTION_OF

\* faulty variant of line 419: bit 12 left as the host reported it
ClearUndefined_Keeps(info) == info

\* line 419: info &= ~(1 << 12)
ClearUndefined(info) == [info EXCEPT !.undef = FALSE]

\* faulty variant of lines 431-432: the type left as the host reported it
AsSoftwareException_KeepsType(info) == info

\* lines 431-432: info &= ~VMCS_INTR_T_MASK; info |= VMCS_INTR_T_SWEXCEPTION
AsSoftwareException(info) == [info EXCEPT !.type = "SWEXCEPTION"]

\* line 450: VMCS_INTR_VALID | VMCS_INTR_T_NMI | NMI_VEC
NmiInfo ==
  [valid |-> TRUE, type |-> "NMI", errcode |-> FALSE, undef |-> FALSE,
   vector |-> NMI_VEC]

\* line 462: line | VMCS_INTR_VALID | VMCS_INTR_T_HWINTR
HwIntrInfo(line) ==
  [valid |-> TRUE, type |-> "HWINTR", errcode |-> FALSE, undef |-> FALSE,
   vector |-> line]

\* vmx_clear_nmi_blocking: clears the NMI-blocking bit of the
\* interruptibility state
vmx_clear_nmi_blocking(st) ==
  [st EXCEPT !.blocking = FALSE,
             !.log = wvmcs(st.log, "GUEST_INTERRUPTIBILITY", "NMI_UNBLOCKED")]

\* vmx_set_nmi_window_exiting: sets the NMI-window-exiting control bit
vmx_set_nmi_window_exiting(st) ==
  [st EXCEPT !.ctls = st.ctls \cup {"NMI_WINDOW_EXITING"},
             !.log = wvmcs_or(st.log, "PRI_PROC_BASED_CTLS", st.ctls,
                              "NMI_WINDOW_EXITING")]

\* faulty variant of lines 383-388: the bit is written over the other control
\* bits instead of OR-ed into them
vmx_set_int_window_exiting_Overwrites(st) ==
  [st EXCEPT !.ctls = {"INT_WINDOW_EXITING"},
             !.log = wvmcs_or(st.log, "PRI_PROC_BASED_CTLS", {},
                              "INT_WINDOW_EXITING")]

\* lines 383-388
vmx_set_int_window_exiting(st) ==
  [st EXCEPT !.ctls = st.ctls \cup {"INT_WINDOW_EXITING"},
             !.log = wvmcs_or(st.log, "PRI_PROC_BASED_CTLS", st.ctls,
                              "INT_WINDOW_EXITING")]

\* lines 402-405: the locals at the start of a cycle
EntryState ==
  [allow_nmi |-> ~nmi_blocking,
   info      |-> ZeroInfo,
   blocking  |-> nmi_blocking,
   ctls      |-> proc_ctls,
   irq       |-> interrupt_request,
   log       |-> <<>>,
   pic       |-> <<>>]

\* faulty variant of lines 418-444: the error code is copied whether or not
\* the vectoring info says it is valid
ReinjectBody_AlwaysCopiesError(st) ==
  LET intr_type == idt_info.type
      vector == idt_info.vector
      info1 == ClearUndefined(st.info)
      log1 == IF IsSoftwareType(intr_type)
              THEN wvmcs(st.log, "ENTRY_INST_LENGTH", exit_ins_len)
              ELSE st.log
      info2 == IF IsBpOrOf(vector) THEN AsSoftwareException(info1) ELSE info1
      log2 == IF IsBpOrOf(vector)
              THEN wvmcs(log1, "ENTRY_INST_LENGTH", exit_ins_len)
              ELSE log1
      log3 == wvmcs(log2, "ENTRY_EXCEPTION_ERROR", idt_error)
  IN  [st EXCEPT !.info = info2,
                 !.log = wvmcs(log3, "ENTRY_INTR_INFO", info2)]

\* lines 418-444: the body of the reinjection branch
ReinjectBody(st) ==
  LET intr_type == idt_info.type
      vector == idt_info.vector
      info1 == ClearUndefined(st.info)
      log1 == IF IsSoftwareType(intr_type)
              THEN wvmcs(st.log, "ENTRY_INST_LENGTH", exit_ins_len)
              ELSE st.log
      info2 == IF IsBpOrOf(vector) THEN AsSoftwareException(info1) ELSE info1
      log2 == IF IsBpOrOf(vector)
              THEN wvmcs(log1, "ENTRY_INST_LENGTH", exit_ins_len)
              ELSE log1
      log3 == IF idt_info.errcode
              THEN wvmcs(log2, "ENTRY_EXCEPTION_ERROR", idt_error)
              ELSE log2
  IN  [st EXCEPT !.info = info2,
                 !.log = wvmcs(log3, "ENTRY_INTR_INFO", info2)]

\* lines 407-445
ReinjectStep(st) ==
  IF idt_info.valid
  THEN LET st1 == [st EXCEPT !.info = idt_info]
           st2 == IF ForceAllowNmi(idt_info.type, exit_reason)
                  THEN vmx_clear_nmi_blocking([st1 EXCEPT !.allow_nmi = TRUE])
                  ELSE st1
       IN  IF ReinjectAllowed(st2.allow_nmi, idt_info.type)
           THEN ReinjectBody(st2)
           ELSE st2
  ELSE st

\* faulty variants of line 448: an event already queued is overwritten, or NMI
\* blocking is not looked at
NmiCanInject_IgnoresQueued(allow_nmi, info) == allow_nmi

NmiCanInject_IgnoresBlocking(allow_nmi, info) == ~info.valid

\* line 448
NmiCanInject(allow_nmi, info) == allow_nmi /\ ~info.valid

\* faulty variant of lines 447-455: a request that cannot be injected is
\* cleared
NmiStep_DropsWhenBlocked(st) ==
  IF "NMI" \in st.irq
  THEN IF NmiCanInject(st.allow_nmi, st.info)
       THEN [st EXCEPT !.irq = st.irq \ {"NMI"},
                       !.info = NmiInfo,
                       !.log = wvmcs(st.log, "ENTRY_INTR_INFO", NmiInfo)]
       ELSE vmx_set_nmi_window_exiting([st EXCEPT !.irq = st.irq \ {"NMI"}])
  ELSE st

\* faulty variant of lines 447-455: the NMI request is not cleared on injection
NmiStep_KeepsRequest(st) ==
  IF "NMI" \in st.irq
  THEN IF NmiCanInject(st.allow_nmi, st.info)
       THEN [st EXCEPT !.info = NmiInfo,
                       !.log = wvmcs(st.log, "ENTRY_INTR_INFO", NmiInfo)]
       ELSE vmx_set_nmi_window_exiting(st)
  ELSE st

\* lines 447-455
NmiStep(st) ==
  IF "NMI" \in st.irq
  THEN IF NmiCanInject(st.allow_nmi, st.info)
       THEN [st EXCEPT !.irq = st.irq \ {"NMI"},
                       !.info = NmiInfo,
                       !.log = wvmcs(st.log, "ENTRY_INTR_INFO", NmiInfo)]
       ELSE vmx_set_nmi_window_exiting(st)
  ELSE st

\* faulty variant of lines 457-458: the interrupt-enable flag is not looked at
HardCanInject_IgnoresIF(irq, info) ==
  interruptable /\ "HARD" \in irq /\ ~info.valid

\* lines 457-458
HardCanInject(irq, info) ==
  interruptable /\ "HARD" \in irq /\ eflags_if /\ ~info.valid

\* faulty variants of lines 459-462: line 0 is taken for "no interrupt"; the request
\* is cleared only when a line is returned
HardInject_SkipsLineZero(st, line) ==
  LET st1 == [st EXCEPT !.pic = Append(st.pic, line),
                        !.irq = st.irq \ {"HARD"}]
  IN  IF line > 0
      THEN [st1 EXCEPT !.log = wvmcs(st1.log, "ENTRY_INTR_INFO",
                                     HwIntrInfo(line))]
      ELSE st1

HardInject_KeepsRequestOnNoVector(st, line) ==
  LET st1 == [st EXCEPT !.pic = Append(st.pic, line)]
  IN  IF line >= 0
      THEN [st1 EXCEPT !.irq = st.irq \ {"HARD"},
                       !.log = wvmcs(st1.log, "ENTRY_INTR_INFO",
                                     HwIntrInfo(line))]
      ELSE st1

\* lines 459-462; line is what cpu_get_pic_interrupt returns
HardInject(st, line) ==
  LET st1 == [st EXCEPT !.pic = Append(st.pic, line),
                        !.irq = st.irq \ {"HARD"}]
  IN  IF line >= 0
      THEN [st1 EXCEPT !.log = wvmcs(st1.log, "ENTRY_INTR_INFO",
                                     HwIntrInfo(line))]
      ELSE st1

\* faulty variant of lines 457-465: the window is not armed for a request
\* that stays
HardStep_NoWindow(st, line) ==
  IF HardCanInject(st.irq, st.info) THEN HardInject(st, line) ELSE st

\* lines 457-465
HardStep(st, line) ==
  LET st1 == IF HardCanInject(st.irq, st.info) THEN HardInject(st, line) ELSE st
  IN  IF "HARD" \in st1.irq THEN vmx_set_int_window_exiting(st1) ELSE st1

\* lines 399-466
InjectResult(line) == HardStep(NmiStep(ReinjectStep(EntryState)), line)

hvf_inject_interrupts ==
  \E line \in PicLines :
    LET st == InjectResult(line)
    IN  /\ nmi_blocking' = st.blocking
        /\ proc_ctls' = st.ctls
        /\ interrupt_request' = st.irq
        /\ cycle' = [ran |-> TRUE, irq |-> interrupt_request,
                     blocking |-> nmi_blocking, ctls |-> proc_ctls,
                     log |-> st.log, pic |-> st.pic]
        /\ prev_cycle' = cycle
        /\ UNCHANGED <<host_vars, eflags_if, interruptable>>
        /\ UNCHANGED aux_vars

(* ----------------------------- environment ----------------------------- *)

\* the guest runs and exits: the host reports the exit information, the
\* interruptibility state and the guest's flags.  Two exits differ in any
\* number of the reported fields; a step changes one of them, so that every
\* combination is reached without drawing them all at once.
hv_vcpu_run ==
  /\ \/ /\ \/ \E v \in BOOLEAN : idt_info' = [idt_info EXCEPT !.valid = v]
           \/ \E t \in IntrTypes : idt_info' = [idt_info EXCEPT !.type = t]
           \/ \E e \in BOOLEAN : idt_info' = [idt_info EXCEPT !.errcode = e]
           \/ \E u \in BOOLEAN : idt_info' = [idt_info EXCEPT !.undef = u]
           \/ \E n \in Vectors : idt_info' = [idt_info EXCEPT !.vector = n]
        /\ UNCHANGED <<exit_reason, exit_ins_len, idt_error, nmi_blocking,
                       eflags_if, interruptable>>
     \/ /\ exit_reason' \in ExitReasons
        /\ UNCHANGED <<idt_info, exit_ins_len, idt_error, nmi_blocking,
                       eflags_if, interruptable>>
     \/ /\ exit_ins_len' \in InsLens
        /\ UNCHANGED <<idt_info, exit_reason, idt_error, nmi_blocking,
                       eflags_if, interruptable>>
     \/ /\ idt_error' \in ErrCodes
        /\ UNCHANGED <<idt_info, exit_reason, exit_ins_len, nmi_blocking,
                       eflags_if, interruptable>>
     \/ /\ nmi_blocking' \in BOOLEAN
        /\ UNCHANGED <<idt_info, exit_reason, exit_ins_len, idt_error,
                       eflags_if, interruptable>>
     \/ /\ eflags_if' \in BOOLEAN
        /\ UNCHANGED <<idt_info, exit_reason, exit_ins_len, idt_error,
                       nmi_blocking, interruptable>>
     \/ /\ interruptable' \in BOOLEAN
        /\ UNCHANGED <<idt_info, exit_reason, exit_ins_len, idt_error,
                       nmi_blocking, eflags_if>>
  /\ cycle' = NoCycle
  /\ prev_cycle' = NoCycle
  /\ UNCHANGED <<proc_ctls, interrupt_request>>
  /\ UNCHANGED aux_vars

\* another thread raises a request; setting a set bit changes nothing
cpu_interrupt ==
  \E mask \in InjectorRequests :
    /\ interrupt_request' = interrupt_request \cup {mask}
    /\ cycle' = NoCycle
    /\ prev_cycle' = NoCycle
    /\ UNCHANGED <<host_vars, nmi_blocking, proc_ctls, eflags_if, interruptable>>
    /\ UNCHANGED aux_vars

\* lines 390-395
vmx_clear_int_window_exiting ==
  /\ proc_ctls' = proc_ctls \ {"INT_WINDOW_EXITING"}
  /\ cycle' = NoCycle
  /\ prev_cycle' = NoCycle
  /\ UNCHANGED <<host_vars, nmi_blocking, interrupt_request, eflags_if,
                 interruptable>>
  /\ UNCHANGED aux_vars

\* the parts of the state a specification leaves alone
InitInjector ==
  /\ nmi_blocking = FALSE
  /\ idt_info = [valid |-> FALSE, type |-> "HWINTR", errcode |-> FALSE,
                 undef |-> FALSE, vector |-> NMI_VEC]
  /\ exit_reason = "OTHER"
  /\ exit_ins_len = 1
  /\ idt_error = 0
  /\ proc_ctls = {}
  /\ interruptable = TRUE
  /\ cycle = NoCycle
  /\ prev_cycle = NoCycle

InitAux ==
  /\ halted = FALSE
  /\ host_if = FALSE
  /\ ev = NoEvents
  /\ race = Idle
  /\ seg = Idle
  /\ xs = Idle
  /\ sync = Idle
  /\ rp = Idle

Init ==
  /\ InitAux
  /\ nmi_blocking = FALSE
  /\ idt_info = [valid |-> FALSE, type |-> "HWINTR", errcode |-> FALSE,
                 undef |-> FALSE, vector |-> NMI_VEC]
  /\ exit_reason = "OTHER"
  /\ exit_ins_len = 1
  /\ idt_error = 0
  /\ proc_ctls = {}
  /\ interrupt_request = {}
  /\ eflags_if = FALSE
  /\ interruptable = TRUE
  /\ cycle = NoCycle
  /\ prev_cycle = NoCycle

Next ==
  \/ hvf_inject_interrupts
  \/ hv_vcpu_run
  \/ cpu_interrupt
  \/ vmx_clear_int_window_exiting

Spec == Init /\ [][Next]_vars

(* ------------------------------- claims -------------------------------- *)

\* the events a cycle wrote to VMCS_ENTRY_INTR_INFO, in order
InjectionWrites(c) == Written(c.log, "ENTRY_INTR_INFO")

\* the cycle or-ed this bit into VMCS_PRI_PROC_BASED_CTLS
Armed(c, bit) ==
  \E i \in 1 .. Len(c.log) :
    c.log[i].field = "PRI_PROC_BASED_CTLS" /\ c.log[i].set = bit

\* the cycle wrote this field
Wrote(c, field) == \E i \in 1 .. Len(c.log) : c.log[i].field = field

\* the vectoring info with bit 12 cleared and, for #BP and #OF, the type
\* software exception
ReinjectedEvent ==
  [idt_info EXCEPT !.undef = FALSE,
                   !.type = IF idt_info.vector \in {EXCEPTION_BP, EXCEPTION_OF}
                            THEN "SWEXCEPTION" ELSE @]

\* valid NMI vectoring info that the cycle does not reinject: NMI blocking
\* is set and the exit was a task switch
BlockedNmiVectoring ==
  /\ idt_info.valid
  /\ idt_info.type = "NMI"
  /\ exit_reason = "TASK_SWITCH"
  /\ cycle.blocking

\* the cycle queried the interrupt controller and injected the line it got
HardInjected ==
  /\ cycle.pic # <<>>
  /\ cycle.pic[1] >= 0
  /\ InjectionWrites(cycle) = <<HwIntrInfo(cycle.pic[1])>>

\* the cycle injected no new hardware interrupt: the controller was not
\* queried and an event of type HWINTR it wrote is the reinjected one
NoHardEvent ==
  /\ cycle.pic = <<>>
  /\ \A i \in 1 .. Len(InjectionWrites(cycle)) :
       InjectionWrites(cycle)[i].type = "HWINTR" =>
         /\ idt_info.valid
         /\ idt_info.type = "HWINTR"
         /\ InjectionWrites(cycle)[i].vector = idt_info.vector

C1_Case == cycle.ran /\ "HARD" \in cycle.irq /\ ~eflags_if

\* C1 as stated: with a hardware interrupt pending and the interrupt-enable
\* flag clear, the cycle injects no hardware interrupt and does not set
\* interrupt-window exiting.
C1_Original ==
  C1_Case => NoHardEvent /\ ~Armed(cycle, "INT_WINDOW_EXITING")

\* C1 amended: with a hardware interrupt pending and the interrupt-enable
\* flag clear, the cycle injects no hardware interrupt, leaves the request
\* pending and sets interrupt-window exiting.
C1_Amended ==
  C1_Case =>
    /\ NoHardEvent
    /\ "HARD" \in interrupt_request
    /\ Armed(cycle, "INT_WINDOW_EXITING")
    /\ "INT_WINDOW_EXITING" \in proc_ctls

C1_Witness ==
  /\ C1_Case
  /\ "INT_WINDOW_EXITING" \notin cycle.ctls
  /\ "INT_WINDOW_EXITING" \in proc_ctls
  /\ InjectionWrites(cycle) = <<>>

\* C2: a cycle writes at most one event to the entry-injection field (so a
\* lower-priority step never overwrites a queued event), and the event it
\* writes is valid.
C2_AtMostOneInjection ==
  cycle.ran =>
    /\ Len(InjectionWrites(cycle)) <= 1
    /\ \A i \in 1 .. Len(InjectionWrites(cycle)) :
         InjectionWrites(cycle)[i].valid

\* a reinjection with an NMI and a hardware interrupt both pending and
\* deliverable: one event written, both windows armed in the same cycle
C2_Witness ==
  /\ cycle.ran
  /\ idt_info.valid
  /\ cycle.irq = {"NMI", "HARD"}
  /\ ~cycle.blocking
  /\ eflags_if
  /\ interruptable
  /\ Len(InjectionWrites(cycle)) = 1
  /\ Armed(cycle, "NMI_WINDOW_EXITING")
  /\ Armed(cycle, "INT_WINDOW_EXITING")

\* C3 as stated: whenever the vectoring info is valid, the cycle writes that
\* event (same vector and error-code flag) with bit 12 cleared.
C3_Original ==
  (cycle.ran /\ idt_info.valid) =>
    \E i \in 1 .. Len(InjectionWrites(cycle)) :
      /\ InjectionWrites(cycle)[i].valid
      /\ InjectionWrites(cycle)[i].vector = idt_info.vector
      /\ InjectionWrites(cycle)[i].errcode = idt_info.errcode
      /\ ~InjectionWrites(cycle)[i].undef

\* C3 amended: whenever the vectoring info is valid, the cycle writes that
\* event with bit 12 cleared (type software exception for #BP and #OF),
\* except for an NMI while NMI blocking is set after a task-switch exit,
\* where nothing is written to the entry-injection field.
C3_Amended ==
  (cycle.ran /\ idt_info.valid) =>
    IF BlockedNmiVectoring
    THEN InjectionWrites(cycle) = <<>>
    ELSE InjectionWrites(cycle) = <<ReinjectedEvent>>

C3_Witness ==
  /\ cycle.ran
  /\ idt_info.valid
  /\ idt_info.undef
  /\ ~BlockedNmiVectoring
  /\ InjectionWrites(cycle) = <<ReinjectedEvent>>

C4_Case ==
  /\ cycle.ran
  /\ idt_info.valid
  /\ idt_info.type = "NMI"
  /\ exit_reason # "TASK_SWITCH"

\* C4: valid NMI vectoring info and an exit reason other than task switch:
\* after the cycle NMI blocking is clear, and the NMI was reinjected
\* whether or not blocking was set on entry.
C4_NmiForcedAllowed ==
  C4_Case =>
    /\ ~nmi_blocking
    /\ Wrote(cycle, "GUEST_INTERRUPTIBILITY")
    /\ InjectionWrites(cycle) = <<ReinjectedEvent>>

C4_Witness ==
  /\ C4_Case
  /\ cycle.blocking
  /\ ~nmi_blocking
  /\ InjectionWrites(cycle) = <<NmiInfo>>

C5_Case ==
  /\ cycle.ran
  /\ idt_info.valid
  /\ idt_info.type = "NMI"
  /\ exit_reason = "TASK_SWITCH"

\* C5: valid NMI vectoring info after a task-switch exit: the cycle leaves
\* the interruptibility state as the host reported it and does not force NMI
\* allowed, so a blocked NMI is not reinjected.
C5_TaskSwitchKeepsBlocking ==
  C5_Case =>
    /\ nmi_blocking = cycle.blocking
    /\ ~Wrote(cycle, "GUEST_INTERRUPTIBILITY")
    /\ (cycle.blocking => InjectionWrites(cycle) = <<>>)

C5_Witness ==
  /\ C5_Case
  /\ cycle.blocking
  /\ nmi_blocking
  /\ InjectionWrites(cycle) = <<>>

\* the reinjection step of the cycle wrote no event
NoReinjection == ~idt_info.valid \/ BlockedNmiVectoring

\* the NMI step of the cycle injected the pending NMI
NmiInjected == "NMI" \in cycle.irq /\ "NMI" \notin interrupt_request

C6_InjectCase ==
  /\ cycle.ran
  /\ "NMI" \in cycle.irq
  /\ NoReinjection
  /\ ~cycle.blocking

C6_WindowCase ==
  /\ cycle.ran
  /\ "NMI" \in cycle.irq
  /\ (cycle.blocking \/ ~NoReinjection)

\* C6: a pending NMI with nothing reinjected and NMI not blocked is written
\* as a valid NMI event with vector 2 and its request cleared; a pending NMI
\* that is blocked, or behind a reinjected event, is not injected, stays
\* requested, and NMI-window exiting is armed.
C6_NmiStep ==
  /\ C6_InjectCase =>
       /\ InjectionWrites(cycle) =
            <<[valid |-> TRUE, type |-> "NMI", errcode |-> FALSE,
               undef |-> FALSE, vector |-> NMI_VEC]>>
       /\ "NMI" \notin interrupt_request
       /\ ~Armed(cycle, "NMI_WINDOW_EXITING")
  /\ C6_WindowCase =>
       /\ "NMI" \in interrupt_request
       /\ Armed(cycle, "NMI_WINDOW_EXITING")
       /\ "NMI_WINDOW_EXITING" \in proc_ctls
       /\ \A i \in 1 .. Len(InjectionWrites(cycle)) :
            \/ ~NoReinjection /\ InjectionWrites(cycle)[i] = ReinjectedEvent
            \/ HardInjected

C6_Witness ==
  /\ C6_WindowCase
  /\ cycle.blocking
  /\ ~idt_info.valid
  /\ "NMI_WINDOW_EXITING" \notin cycle.ctls
  /\ "NMI_WINDOW_EXITING" \in proc_ctls
  /\ "NMI" \in interrupt_request

\* the hardware-interrupt step found no event queued by the two steps
\* before it
NoEventQueued == NoReinjection /\ ~NmiInjected

C7_Case ==
  /\ cycle.ran
  /\ "HARD" \in cycle.irq
  /\ eflags_if
  /\ NoEventQueued

C7_Effect ==
  /\ cycle.pic # <<>>
  /\ cycle.pic[1] >= 0 =>
       /\ InjectionWrites(cycle) =
            <<[valid |-> TRUE, type |-> "HWINTR", errcode |-> FALSE,
               undef |-> FALSE, vector |-> cycle.pic[1]]>>
       /\ "HARD" \notin interrupt_request

\* C7 as stated: a pending hardware interrupt with the interrupt-enable flag
\* set and no event queued is enough for the controller to be queried and a
\* returned vector to be injected and the request cleared.
C7_Original == C7_Case => C7_Effect

\* C7 amended: it takes, besides the pending request, the interrupt-enable
\* flag and no event queued, that the virtual CPU is interruptable and that
\* the vectoring info of the cycle is not valid (valid NMI vectoring info
\* that was not reinjected holds the injection back too).
C7_Amended ==
  (C7_Case /\ interruptable /\ ~idt_info.valid) => C7_Effect

C7_Witness ==
  /\ C7_Case
  /\ interruptable
  /\ ~idt_info.valid
  /\ cycle.pic = <<0>>
  /\ "HARD" \notin interrupt_request
  /\ Len(InjectionWrites(cycle)) = 1

\* C8 as stated: the request bit is cleared only when a returned vector was
\* injected, and a request that was pending and not injected has
\* interrupt-window exiting armed.
C8_Original ==
  (cycle.ran /\ "HARD" \in cycle.irq) =>
    /\ "HARD" \notin interrupt_request => HardInjected
    /\ ~HardInjected => Armed(cycle, "INT_WINDOW_EXITING")

\* C8 amended: the request bit is cleared exactly when the controller was
\* queried, whether or not it returned a vector; a returned vector is
\* injected; without a vector nothing is injected and no window is armed;
\* interrupt-window exiting is armed exactly when the request is still set
\* at the end of the cycle.
C8_Amended ==
  (cycle.ran /\ "HARD" \in cycle.irq) =>
    /\ "HARD" \notin interrupt_request <=> cycle.pic # <<>>
    /\ (cycle.pic # <<>> /\ cycle.pic[1] >= 0) => HardInjected
    /\ (cycle.pic # <<>> /\ cycle.pic[1] < 0) => InjectionWrites(cycle) = <<>>
    /\ "HARD" \in interrupt_request <=> Armed(cycle, "INT_WINDOW_EXITING")

C8_Witness ==
  /\ cycle.ran
  /\ "HARD" \in cycle.irq
  /\ cycle.pic = <<-1>>
  /\ "HARD" \notin interrupt_request
  /\ InjectionWrites(cycle) = <<>>
  /\ ~Armed(cycle, "INT_WINDOW_EXITING")

C9_Case ==
  /\ cycle.ran
  /\ idt_info.valid
  /\ idt_info.vector \in {EXCEPTION_BP, EXCEPTION_OF}
  /\ idt_info.type = "HWEXCEPTION"

\* C9: reinjecting #BP or #OF reported as a hardware exception stores the
\* event with type software exception, bit 12 clear and every other bit as
\* reported, and the entry instruction length is the exit instruction length.
C9_BreakpointAsSoftware ==
  C9_Case =>
    /\ InjectionWrites(cycle) =
         <<[valid |-> TRUE, type |-> "SWEXCEPTION",
            errcode |-> idt_info.errcode, undef |-> FALSE,
            vector |-> idt_info.vector]>>
    /\ Written(cycle.log, "ENTRY_INST_LENGTH") = <<exit_ins_len>>

C9_Witness ==
  /\ C9_Case
  /\ idt_info.vector = EXCEPTION_BP
  /\ idt_info.undef
  /\ exit_ins_len = MaxInsLen
  /\ Written(cycle.log, "ENTRY_INST_LENGTH") = <<MaxInsLen>>

C10_Case ==
  /\ prev_cycle.ran
  /\ cycle.ran
  /\ prev_cycle.irq = {"NMI"}
  /\ ~prev_cycle.blocking
  /\ ~idt_info.valid

\* C10: of two cycles in a row that start with only the NMI request set, no
\* valid vectoring info and NMI not blocked, the first injects the NMI and
\* clears the request, the second writes nothing to the entry-injection
\* field and arms neither window.
C10_NmiThenQuiet ==
  C10_Case =>
    /\ InjectionWrites(prev_cycle) = <<NmiInfo>>
    /\ cycle.irq = {}
    /\ InjectionWrites(cycle) = <<>>
    /\ ~Armed(cycle, "NMI_WINDOW_EXITING")
    /\ ~Armed(cycle, "INT_WINDOW_EXITING")
    /\ proc_ctls = cycle.ctls

C10_Witness ==
  /\ C10_Case
  /\ InjectionWrites(prev_cycle) = <<NmiInfo>>
  /\ interrupt_request = {}
  /\ cycle.log = <<>>

(* -------------------------- hvf_process_events ------------------------- *)

\* the request bits hvf_process_events looks at
EventRequests == {"INIT", "POLL", "HARD", "NMI", "SIPI", "TPR"}

\* what apic_poll_irq makes of the hardware-interrupt request: it leaves it,
\* raises it, or withdraws it
PollResponses == {"unchanged", "pending", "not_pending"}

\* apic_poll_irq recomputes whether a hardware interrupt is pending
apic_poll_irq(irq, resp) ==
  CASE resp = "pending" -> irq \cup {"HARD"}
    [] resp = "not_pending" -> irq \ {"HARD"}
    [] OTHER -> irq

\* lines 468-473: the locals at the start of a call
EventsEntry ==
  [irq |-> interrupt_request, halted |-> halted, calls |-> <<>>, poll |-> <<>>]

\* lines 475-478
InitCheck(st) ==
  IF "INIT" \in st.irq
  THEN [st EXCEPT !.calls = st.calls \o <<"hvf_cpu_synchronize_state",
                                          "do_cpu_init">>]
  ELSE st

\* faulty variant of lines 480-483: the POLL bit is not cleared
PollCheck_KeepsBit(st, resp) ==
  IF "POLL" \in st.irq
  THEN [st EXCEPT !.irq = apic_poll_irq(st.irq, resp),
                  !.poll = Append(st.poll, resp),
                  !.calls = Append(st.calls, "apic_poll_irq")]
  ELSE st

\* lines 480-483; resp is what apic_poll_irq finds
PollCheck(st, resp) ==
  IF "POLL" \in st.irq
  THEN [st EXCEPT !.irq = apic_poll_irq(st.irq \ {"POLL"}, resp),
                  !.poll = Append(st.poll, resp),
                  !.calls = Append(st.calls, "apic_poll_irq")]
  ELSE st

\* faulty variant of lines 484-485: the interrupt-enable flag is not looked at
WakeCondition_IgnoresIF(irq, if_flag) == "HARD" \in irq \/ "NMI" \in irq

\* lines 484-485; if_flag is EFLAGS(cpu_state) & IF_MASK as read at line 473
WakeCondition(irq, if_flag) ==
  ("HARD" \in irq /\ if_flag) \/ "NMI" \in irq

\* lines 484-487
HaltedCheck(st, if_flag) ==
  IF WakeCondition(st.irq, if_flag) THEN [st EXCEPT !.halted = FALSE] ELSE st

\* lines 488-491
SipiCheck(st) ==
  IF "SIPI" \in st.irq
  THEN [st EXCEPT !.calls = st.calls \o <<"hvf_cpu_synchronize_state",
                                          "do_cpu_sipi">>]
  ELSE st

\* faulty variant of lines 492-497: the arguments of the report are read
\* before the state is synchronised
TprCheck_ReadsBeforeSync(st) ==
  IF "TPR" \in st.irq
  THEN [st EXCEPT !.irq = st.irq \ {"TPR"},
                  !.calls = st.calls \o <<"env->eip", "env->tpr_access_type",
                                          "hvf_cpu_synchronize_state",
                                          "apic_handle_tpr_access_report">>]
  ELSE st

\* lines 492-497; the arguments of the report are read from env when the call
\* of line 495 is made, which the entries env->eip and env->tpr_access_type
\* stand for
TprCheck(st) ==
  IF "TPR" \in st.irq
  THEN [st EXCEPT !.irq = st.irq \ {"TPR"},
                  !.calls = st.calls \o <<"hvf_cpu_synchronize_state",
                                          "env->eip", "env->tpr_access_type",
                                          "apic_handle_tpr_access_report">>]
  ELSE st

\* faulty variant of lines 475-497: the halted check is made before the POLL
\* check
EventsResult_HaltedFirst(resp) ==
  TprCheck(SipiCheck(PollCheck(HaltedCheck(InitCheck(EventsEntry), host_if),
                               resp)))

\* lines 468-499
EventsResult(resp) ==
  TprCheck(SipiCheck(HaltedCheck(PollCheck(InitCheck(EventsEntry), resp),
                                 host_if)))

hvf_process_events ==
  \E resp \in PollResponses :
    LET st == EventsResult(resp)
    IN  /\ eflags_if' = host_if
        /\ interrupt_request' = st.irq
        /\ halted' = st.halted
        /\ ev' = [ran |-> TRUE, irq |-> interrupt_request, halted |-> halted,
                  poll |-> st.poll, calls |-> st.calls, ret |-> st.halted]
        /\ UNCHANGED <<host_if, race, seg, xs, sync, rp>>
        /\ UNCHANGED injector_vars

\* another thread raises any of the requests
raise_request ==
  \E mask \in EventRequests :
    /\ interrupt_request' = interrupt_request \cup {mask}
    /\ ev' = NoEvents
    /\ UNCHANGED <<eflags_if, halted, host_if, race, seg, xs, sync, rp>>
    /\ UNCHANGED injector_vars

\* the guest executes HLT: the run loop parks the virtual CPU
guest_halts ==
  /\ halted' = TRUE
  /\ ev' = NoEvents
  /\ UNCHANGED <<interrupt_request, eflags_if, host_if, race, seg, xs, sync, rp>>
  /\ UNCHANGED injector_vars

\* the guest changes its interrupt-enable flag
guest_sets_if ==
  /\ host_if' \in BOOLEAN
  /\ ev' = NoEvents
  /\ UNCHANGED <<interrupt_request, eflags_if, halted, race, seg, xs, sync, rp>>
  /\ UNCHANGED injector_vars

InitEvents ==
  /\ InitInjector
  /\ interrupt_request = {}
  /\ eflags_if = FALSE
  /\ halted = FALSE
  /\ host_if = FALSE
  /\ ev = NoEvents
  /\ race = Idle
  /\ seg = Idle
  /\ xs = Idle
  /\ sync = Idle
  /\ rp = Idle

NextEvents ==
  \/ hvf_process_events
  \/ raise_request
  \/ guest_halts
  \/ guest_sets_if

SpecEvents == InitEvents /\ [][NextEvents]_vars

\* how often a call was made
CallCount(calls, name) ==
  Cardinality({i \in 1 .. Len(calls) : calls[i] = name})

\* C11: a call with the POLL request set clears POLL and calls apic_poll_irq
\* exactly once; it does not call the injector and writes no entry-injection
\* or window-exiting field; without the POLL request apic_poll_irq is not
\* called.
C11_PollHandling ==
  ev.ran =>
    /\ "POLL" \notin interrupt_request
    /\ CallCount(ev.calls, "apic_poll_irq") =
         (IF "POLL" \in ev.irq THEN 1 ELSE 0)
    /\ CallCount(ev.calls, "hvf_inject_interrupts") = 0
    /\ ~cycle.ran
    /\ proc_ctls = {}

C11_Witness ==
  /\ ev.ran
  /\ "POLL" \in ev.irq
  /\ "HARD" \notin ev.irq
  /\ ev.poll = <<"pending">>
  /\ interrupt_request = (ev.irq \ {"POLL"}) \cup {"HARD"}

\* the hardware-interrupt request as the halted check finds it
HardAtHaltedCheck ==
  IF "POLL" \in ev.irq /\ ev.poll # <<>>
  THEN \/ ev.poll[1] = "pending"
       \/ ev.poll[1] = "unchanged" /\ "HARD" \in ev.irq
  ELSE "HARD" \in ev.irq

\* C12: halted becomes false when, at the halted check, a hardware
\* interrupt is requested with the interrupt-enable flag set, or an NMI is
\* requested; otherwise it stays as it was (it is never set to true), and
\* the call returns the resulting flag.
C12_Halted ==
  ev.ran =>
    /\ halted = IF (HardAtHaltedCheck /\ eflags_if) \/ "NMI" \in ev.irq
                THEN FALSE ELSE ev.halted
    /\ ev.ret = halted

C12_Witness ==
  /\ ev.ran
  /\ ev.halted
  /\ "HARD" \in ev.irq
  /\ "NMI" \notin ev.irq
  /\ "POLL" \notin ev.irq
  /\ ~eflags_if
  /\ halted
  /\ ev.ret

(* ------------- interrupt_request shared with another thread ------------ *)

\* the requests the owning thread clears: lines 449, 460, 481 and 493
ClearedRequests == {"NMI", "HARD", "POLL", "TPR"}

NoRace == [pc |-> "idle", tmp |-> {}, bit |-> "NONE", raised |-> {}]

\* interrupt_request &= ~bit is a plain read-modify-write of the shared
\* word: this is its read.  The statement is only reached with the bit set.
clear_request_load ==
  \E bit \in ClearedRequests :
    /\ race.pc # "loaded"
    /\ bit \in interrupt_request
    /\ race' = [pc |-> "loaded", tmp |-> interrupt_request, bit |-> bit,
                raised |-> {}]
    /\ UNCHANGED <<interrupt_request, eflags_if, halted, host_if, ev, seg,
                   xs, sync, rp>>
    /\ UNCHANGED injector_vars

\* the write of interrupt_request &= ~bit: the word read earlier, less the bit
clear_request_store ==
  /\ race.pc = "loaded"
  /\ interrupt_request' = race.tmp \ {race.bit}
  /\ race' = [race EXCEPT !.pc = "stored"]
  /\ UNCHANGED <<eflags_if, halted, host_if, ev, seg, xs, sync, rp>>
  /\ UNCHANGED injector_vars

\* another thread raises a request; its own update is taken to be atomic
cpu_interrupt_other_thread ==
  \E mask \in EventRequests :
    /\ interrupt_request' = interrupt_request \cup {mask}
    /\ race' = IF race.pc = "loaded"
               THEN [race EXCEPT !.raised = @ \cup {mask}]
               ELSE NoRace
    /\ UNCHANGED <<eflags_if, halted, host_if, ev, seg, xs, sync, rp>>
    /\ UNCHANGED injector_vars

InitRace ==
  /\ InitInjector
  /\ interrupt_request = {}
  /\ eflags_if = FALSE
  /\ halted = FALSE
  /\ host_if = FALSE
  /\ ev = NoEvents
  /\ race = NoRace
  /\ seg = Idle
  /\ xs = Idle
  /\ sync = Idle
  /\ rp = Idle

NextRace ==
  \/ clear_request_load
  \/ clear_request_store
  \/ cpu_interrupt_other_thread

SpecRace == InitRace /\ [][NextRace]_vars

\* C13: a request raised by another thread while the owning thread clears a
\* different request is still set when the clearing is done, and the cleared
\* request is the only one the clearing removes.
C13_NoLostRequest ==
  race.pc = "stored" =>
    /\ race.raised \ {race.bit} \subseteq interrupt_request
    /\ race.tmp \ {race.bit} \subseteq interrupt_request

\* the interleaving that loses a request: NMI is being cleared, HARD is
\* raised between the read and the write, and HARD is gone afterwards
C13_LostRequest ==
  /\ race.pc = "stored"
  /\ race.bit = "NMI"
  /\ race.raised = {"HARD"}
  /\ "HARD" \notin interrupt_request

(* ------------------ hvf_set_segment / hvf_get_segment ------------------ *)

\* largest selector and largest base or limit of the segments tried
MaxSel == 1
MaxAddr == 1

\* the fields of SegmentCache.flags that the translation looks at, each as
\* the number its bits hold, and (other) whether any further bit is set
SegFlags ==
  [type : 0 .. 15, s : 0 .. 1, dpl : 0 .. 3, p : 0 .. 1, avl : 0 .. 1,
   l : 0 .. 1, b : 0 .. 1, g : 0 .. 1, other : 0 .. 1]

GuestSegments ==
  {[selector |-> sel, base |-> a[1], limit |-> a[2], flags |-> f] :
     sel \in 0 .. MaxSel, a \in {<<0, MaxAddr>>, <<MaxAddr, 0>>},
     f \in SegFlags}

\* faulty variant of lines 50-57: the DPL field is masked with 1
PackAr_NarrowDpl(f) ==
  (f.type % 16) + (f.g % 2) * 32768 + (f.b % 2) * 16384 + (f.l % 2) * 8192
    + (f.avl % 2) * 4096 + (f.p % 2) * 128 + (f.dpl % 2) * 32
    + (f.s % 2) * 16

\* lines 50-57: the fields are OR-ed into disjoint bits 0-3, 15, 14, 13, 12,
\* 7, 5-6 and 4, which is their sum
PackAr(f) ==
  (f.type % 16) + (f.g % 2) * 32768 + (f.b % 2) * 16384 + (f.l % 2) * 8192
    + (f.avl % 2) * 4096 + (f.p % 2) * 128 + (f.dpl % 4) * 32
    + (f.s % 2) * 16

\* faulty variant of line 45: the task register is not told apart
EarlyPath_IgnoresTr(qseg, real, is_tr) == qseg.selector = 0 /\ ~real

\* line 45; real is x86_is_real(cpu)
EarlyPath(qseg, real, is_tr) == qseg.selector = 0 /\ ~real /\ ~is_tr

\* lines 39-58
hvf_set_segment(qseg, real, is_tr) ==
  [sel |-> qseg.selector, base |-> qseg.base, limit |-> qseg.limit,
   ar |-> IF EarlyPath(qseg, real, is_tr) THEN 65536 ELSE PackAr(qseg.flags)]

\* lines 60-73
hvf_get_segment(vmx_seg) ==
  [selector |-> vmx_seg.sel, base |-> vmx_seg.base, limit |-> vmx_seg.limit,
   flags |-> [type |-> vmx_seg.ar % 16,
              s |-> (vmx_seg.ar \div 16) % 2,
              dpl |-> (vmx_seg.ar \div 32) % 4,
              p |-> (vmx_seg.ar \div 128) % 2,
              avl |-> (vmx_seg.ar \div 4096) % 2,
              l |-> (vmx_seg.ar \div 8192) % 2,
              b |-> (vmx_seg.ar \div 16384) % 2,
              g |-> (vmx_seg.ar \div 32768) % 2,
              other |-> 0]]

NoHostSegment == [sel |-> 0, base |-> 0, limit |-> 0, ar |-> 0]

\* the guest segment is translated to host form
segment_to_host ==
  /\ seg.pc = "guest"
  /\ seg' = [seg EXCEPT !.pc = "host",
                        !.vmx = hvf_set_segment(seg.q, seg.real, seg.is_tr)]
  /\ UNCHANGED <<interrupt_request, eflags_if, halted, host_if, ev, race,
                 xs, sync, rp>>
  /\ UNCHANGED injector_vars

\* the host form is translated back
segment_to_guest ==
  /\ seg.pc = "host"
  /\ seg' = [seg EXCEPT !.pc = "back", !.out = hvf_get_segment(seg.vmx)]
  /\ UNCHANGED <<interrupt_request, eflags_if, halted, host_if, ev, race,
                 xs, sync, rp>>
  /\ UNCHANGED injector_vars

InitSeg ==
  /\ InitInjector
  /\ interrupt_request = {}
  /\ eflags_if = FALSE
  /\ halted = FALSE
  /\ host_if = FALSE
  /\ ev = NoEvents
  /\ race = Idle
  /\ xs = Idle
  /\ sync = Idle
  /\ rp = Idle
  /\ \E q \in GuestSegments, real \in BOOLEAN, is_tr \in BOOLEAN :
       seg = [pc |-> "guest", q |-> q, real |-> real, is_tr |-> is_tr,
              vmx |-> NoHostSegment, out |-> q]

NextSeg ==
  \/ segment_to_host
  \/ segment_to_guest

SpecSeg == InitSeg /\ [][NextSeg]_vars

\* C14: a segment with a non-zero selector comes back from host form with
\* the same selector, base, limit, type, S, DPL, P, AVL, L, B and G.
C14_SegmentRoundTrip ==
  (seg.pc = "back" /\ seg.q.selector # 0) =>
    /\ seg.out.selector = seg.q.selector
    /\ seg.out.base = seg.q.base
    /\ seg.out.limit = seg.q.limit
    /\ seg.out.flags.type = seg.q.flags.type
    /\ seg.out.flags.s = seg.q.flags.s
    /\ seg.out.flags.dpl = seg.q.flags.dpl
    /\ seg.out.flags.p = seg.q.flags.p
    /\ seg.out.flags.avl = seg.q.flags.avl
    /\ seg.out.flags.l = seg.q.flags.l
    /\ seg.out.flags.b = seg.q.flags.b
    /\ seg.out.flags.g = seg.q.flags.g

C14_Witness ==
  /\ seg.pc = "back"
  /\ seg.q.selector = MaxSel
  /\ seg.q.base = MaxAddr
  /\ seg.q.flags.type = 15
  /\ seg.q.flags.dpl = 3
  /\ seg.q.flags.g = 1
  /\ seg.q.flags.s = 0
  /\ seg.out.flags.type = 15
  /\ seg.out.flags.dpl = 3
  /\ seg.out.base = MaxAddr

\* C15: the access rights are the fixed value with only bit 16 set exactly
\* when the selector is zero, the processor is not in real mode and the
\* segment is not the task register; in every other case they are packed
\* from the flags and bit 16 is clear.
C15_EarlyPath ==
  seg.pc = "host" =>
    IF seg.q.selector = 0 /\ ~seg.real /\ ~seg.is_tr
    THEN seg.vmx.ar = 65536
    ELSE /\ seg.vmx.ar = PackAr(seg.q.flags)
         /\ (seg.vmx.ar \div 65536) % 2 = 0
         /\ seg.vmx.ar % 16 = seg.q.flags.type
         /\ (seg.vmx.ar \div 128) % 2 = seg.q.flags.p

C15_Witness ==
  /\ seg.pc = "host"
  /\ seg.q.selector = 0
  /\ seg.is_tr
  /\ ~seg.real
  /\ seg.q.flags.p = 1
  /\ seg.q.flags.type = 11
  /\ seg.vmx.ar = PackAr(seg.q.flags)
  /\ seg.vmx.ar # 65536

(* --------------------- hvf_put_xsave / hvf_get_xsave ------------------- *)

\* bitwise OR of two naturals
RECURSIVE BitOr(_, _)
BitOr(a, b) ==
  IF a = 0 THEN b
  ELSE IF b = 0 THEN a
  ELSE (IF a % 2 = 1 \/ b % 2 = 1 THEN 1 ELSE 0)
         + 2 * BitOr(a \div 2, b \div 2)

\* the register banks copied with memcpy, and the two words copied whole
XsaveBanks ==
  {"fpdp", "fpip", "fpregs", "ymmh_regs", "zmmh_regs", "opmask_regs",
   "bnd_regs", "bndcs_regs", "hi16_zmm_regs", "xmm_regs", "mxcsr",
   "xstate_bv"}

\* contents tried for the banks: all zero, and a different value in each
BankContents ==
  {[b \in XsaveBanks |-> 0],
   [b \in XsaveBanks |->
      CASE b = "fpdp" -> 1 [] b = "fpip" -> 2 [] b = "fpregs" -> 3
        [] b = "ymmh_regs" -> 4 [] b = "zmmh_regs" -> 5
        [] b = "opmask_regs" -> 6 [] b = "bnd_regs" -> 7
        [] b = "bndcs_regs" -> 8 [] b = "hi16_zmm_regs" -> 9
        [] b = "xmm_regs" -> 10 [] b = "mxcsr" -> 11 [] OTHER -> 12]}

\* fptags[x] is 1 for an empty register; the patterns tried
TagPatterns ==
  {[x \in 0 .. 7 |-> 0], [x \in 0 .. 7 |-> 1],
   [x \in 0 .. 7 |-> IF x = 0 THEN 1 ELSE 0],
   [x \in 0 .. 7 |-> IF x = 7 THEN 0 ELSE 1]}

\* the FPU part of CPUX86State; fpus and fpop stay below 0x8000
FpuStates ==
  [fpuc : {0, 895, 2048, 14336, 65535}, fpus : {0, 2048, 14336, 16640},
   fpstt : 0 .. 7, fpop : {0, 1, 32767}, fptags : TagPatterns,
   banks : BankContents]

\* line 99: the bits OR-ed into data[1] for registers x .. 7
RECURSIVE PackTags(_, _)
PackTags(fptags, x) ==
  IF x > 7 THEN 0
  ELSE (IF fptags[x] = 0 THEN 2 ^ x ELSE 0) + PackTags(fptags, x + 1)

\* lines 82-105: the words and banks of xsave->data; w0 and w1 are data[0]
\* and data[1], at names the word offset of each memcpy.  With fpus and fpop
\* below 0x8000 neither shift by 16 leaves 31 bits.
hvf_put_xsave_pack(env) ==
  [w0 |-> BitOr(BitOr(env.fpuc % 65536, env.fpus * 65536),
                (env.fpstt % 8) * 2048),
   w1 |-> BitOr(PackTags(env.fptags, 0), env.fpop * 65536),
   at |-> [w4 |-> env.banks["fpdp"], w2 |-> env.banks["fpip"],
           w8 |-> env.banks["fpregs"], w144 |-> env.banks["ymmh_regs"],
           w288 |-> env.banks["zmmh_regs"],
           w272 |-> env.banks["opmask_regs"],
           w240 |-> env.banks["bnd_regs"], w256 |-> env.banks["bndcs_regs"],
           w416 |-> env.banks["hi16_zmm_regs"],
           w40 |-> env.banks["xmm_regs"], w6 |-> env.banks["mxcsr"],
           w128 |-> env.banks["xstate_bv"]]]

\* lines 196-219
hvf_get_xsave_unpack(data) ==
  LET fpus == (data.w0 \div 65536) % 65536
  IN  [fpuc |-> data.w0 % 65536,
       fpus |-> fpus,
       fpstt |-> (fpus \div 2048) % 8,
       fpop |-> (data.w1 \div 65536) % 65536,
       fptags |-> [x \in 0 .. 7 |->
                     IF ((data.w1 % 65536) \div (2 ^ x)) % 2 = 0
                     THEN 1 ELSE 0],
       banks |-> [b \in XsaveBanks |->
                    CASE b = "fpdp" -> data.at.w4 [] b = "fpip" -> data.at.w2
                      [] b = "fpregs" -> data.at.w8
                      [] b = "ymmh_regs" -> data.at.w144
                      [] b = "zmmh_regs" -> data.at.w288
                      [] b = "opmask_regs" -> data.at.w272
                      [] b = "bnd_regs" -> data.at.w240
                      [] b = "bndcs_regs" -> data.at.w256
                      [] b = "hi16_zmm_regs" -> data.at.w416
                      [] b = "xmm_regs" -> data.at.w40
                      [] b = "mxcsr" -> data.at.w6
                      [] OTHER -> data.at.w128]]

\* the buffer after the memset of line 82
ZeroXsave ==
  [w0 |-> 0, w1 |-> 0,
   at |-> [w4 |-> 0, w2 |-> 0, w8 |-> 0, w144 |-> 0, w288 |-> 0, w272 |-> 0,
           w240 |-> 0, w256 |-> 0, w416 |-> 0, w40 |-> 0, w6 |-> 0,
           w128 |-> 0]]

\* the guest state is packed into the buffer
xsave_pack ==
  /\ xs.pc = "guest"
  /\ xs' = [xs EXCEPT !.pc = "packed", !.data = hvf_put_xsave_pack(xs.env)]
  /\ UNCHANGED <<interrupt_request, eflags_if, halted, host_if, ev, race,
                 seg, sync, rp>>
  /\ UNCHANGED injector_vars

\* the same buffer is unpacked
xsave_unpack ==
  /\ xs.pc = "packed"
  /\ xs' = [xs EXCEPT !.pc = "unpacked",
                      !.out = hvf_get_xsave_unpack(xs.data)]
  /\ UNCHANGED <<interrupt_request, eflags_if, halted, host_if, ev, race,
                 seg, sync, rp>>
  /\ UNCHANGED injector_vars

InitXsave ==
  /\ InitInjector
  /\ interrupt_request = {}
  /\ eflags_if = FALSE
  /\ halted = FALSE
  /\ host_if = FALSE
  /\ ev = NoEvents
  /\ race = Idle
  /\ seg = Idle
  /\ sync = Idle
  /\ rp = Idle
  /\ \E env \in FpuStates :
       xs = [pc |-> "guest", env |-> env,
             data |-> ZeroXsave, out |-> env]

NextXsave ==
  \/ xsave_pack
  \/ xsave_unpack

SpecXsave == InitXsave /\ [][NextXsave]_vars

\* C16: unpacking the packed buffer gives back every register bank and the
\* FPU control word, status word, top of stack, opcode and tags.
C16_XsaveRoundTrip ==
  xs.pc = "unpacked" =>
    /\ xs.out.banks = xs.env.banks
    /\ xs.out.fpuc = xs.env.fpuc
    /\ xs.out.fpus = xs.env.fpus
    /\ xs.out.fpstt = xs.env.fpstt
    /\ xs.out.fpop = xs.env.fpop
    /\ xs.out.fptags = xs.env.fptags

\* the top of stack lands in the control word and is not read back
C16_TopOfStackMisplaced ==
  /\ xs.pc = "unpacked"
  /\ xs.env.fpuc = 895
  /\ xs.env.fpus = 0
  /\ xs.env.fpstt = 1
  /\ xs.out.fpuc = 2943
  /\ xs.out.fpstt = 0

\* what the round trip does keep: banks, status word, opcode and tags
C16_RoundTripOfTheRest ==
  xs.pc = "unpacked" =>
    /\ xs.out.banks = xs.env.banks
    /\ xs.out.fpus = xs.env.fpus
    /\ xs.out.fpop = xs.env.fpop
    /\ xs.out.fptags = xs.env.fptags
    /\ xs.out.fpuc = BitOr(xs.env.fpuc, xs.env.fpstt * 2048)
    /\ xs.out.fpstt = (xs.env.fpus \div 2048) % 8

(* ----------------- hvf_put_registers / hvf_get_registers --------------- *)

\* largest register value tried
MaxVal == 2
Values == 0 .. MaxVal

\* lines 300-319: the wreg calls before hvf_put_xsave, as
\* <<host register, guest field>>
PutRegs ==
  <<<<"RAX", "R_EAX">>, <<"RBX", "R_EBX">>, <<"RCX", "R_ECX">>,
    <<"RDX", "R_EDX">>, <<"RBP", "R_EBP">>, <<"RSP", "R_ESP">>,
    <<"RSI", "R_ESI">>, <<"RDI", "R_EDI">>, <<"R8", "regs8">>,
    <<"R9", "regs9">>, <<"R10", "regs10">>, <<"R11", "regs11">>,
    <<"R12", "regs12">>, <<"R13", "regs13">>, <<"R14", "regs14">>,
    <<"R15", "regs15">>, <<"RFLAGS", "eflags">>, <<"RIP", "eip">>,
    <<"XCR0", "xcr0">>>>

\* lines 327-334
PutDebugRegs ==
  <<<<"DR0", "dr0">>, <<"DR1", "dr1">>, <<"DR2", "dr2">>, <<"DR3", "dr3">>,
    <<"DR4", "dr4">>, <<"DR5", "dr5">>, <<"DR6", "dr6">>, <<"DR7", "dr7">>>>

\* lines 345-363: the rreg calls before hvf_get_xsave
GetRegs ==
  <<<<"RAX", "R_EAX">>, <<"RBX", "R_EBX">>, <<"RCX", "R_ECX">>,
    <<"RDX", "R_EDX">>, <<"RBP", "R_EBP">>, <<"RSP", "R_ESP">>,
    <<"RSI", "R_ESI">>, <<"RDI", "R_EDI">>, <<"R8", "regs8">>,
    <<"R9", "regs9">>, <<"R10", "regs10">>, <<"R11", "regs11">>,
    <<"R12", "regs12">>, <<"R13", "regs13">>, <<"R14", "regs14">>,
    <<"R15", "regs15">>, <<"RFLAGS", "eflags">>, <<"RIP", "eip">>>>

\* line 366
GetXcr0 == <<<<"XCR0", "xcr0">>>>

\* lines 371-378
GetDebugRegs ==
  <<<<"DR0", "dr0">>, <<"DR1", "dr1">>, <<"DR2", "dr2">>, <<"DR3", "dr3">>,
    <<"DR4", "dr4">>, <<"DR5", "dr5">>, <<"DR6", "dr6">>, <<"DR7", "dr7">>>>

HostRegs == {PutRegs[i][1] : i \in 1 .. Len(PutRegs)}
              \cup {PutDebugRegs[i][1] : i \in 1 .. Len(PutDebugRegs)}

GuestRegs == {PutRegs[i][2] : i \in 1 .. Len(PutRegs)}
               \cup {PutDebugRegs[i][2] : i \in 1 .. Len(PutDebugRegs)}

\* the guest fields hvf_put_msrs and hvf_get_msrs copy
MsrFields ==
  {"sysenter_cs", "sysenter_esp", "sysenter_eip", "star", "cstar",
   "kernelgsbase", "fmask", "lstar"}

\* lines 163-177: the hv_vcpu_write_msr calls as <<MSR, guest source>>;
\* target64 is TARGET_X86_64
PutMsrs(target64) ==
  <<<<"MSR_IA32_SYSENTER_CS", "sysenter_cs">>,
    <<"MSR_IA32_SYSENTER_ESP", "sysenter_esp">>,
    <<"MSR_IA32_SYSENTER_EIP", "sysenter_eip">>,
    <<"MSR_STAR", "star">>>>
  \o (IF target64
      THEN <<<<"MSR_CSTAR", "cstar">>,
             <<"MSR_KERNELGSBASE", "kernelgsbase">>,
             <<"MSR_FMASK", "fmask">>, <<"MSR_LSTAR", "lstar">>>>
      ELSE <<>>)
  \o <<<<"MSR_GSBASE", "segs[R_GS].base">>,
       <<"MSR_FSBASE", "segs[R_FS].base">>>>

\* faulty variant of lines 272-290: the FS and GS bases are read as well
GetMsrs_WithBases(target64) ==
  PutMsrs(target64) \o <<<<"MSR_IA32_APICBASE", "tmp">>>>

\* lines 272-290: the hv_vcpu_read_msr calls as <<MSR, destination>>; the
\* first three go through tmp, the last stays in tmp
GetMsrs(target64) ==
  <<<<"MSR_IA32_SYSENTER_CS", "sysenter_cs">>,
    <<"MSR_IA32_SYSENTER_ESP", "sysenter_esp">>,
    <<"MSR_IA32_SYSENTER_EIP", "sysenter_eip">>,
    <<"MSR_STAR", "star">>>>
  \o (IF target64
      THEN <<<<"MSR_CSTAR", "cstar">>,
             <<"MSR_KERNELGSBASE", "kernelgsbase">>,
             <<"MSR_FMASK", "fmask">>, <<"MSR_LSTAR", "lstar">>>>
      ELSE <<>>)
  \o <<<<"MSR_IA32_APICBASE", "tmp">>>>

\* the destinations that receive tmp after the call: lines 273, 276, 279
ThroughTmp == {"sysenter_cs", "sysenter_esp", "sysenter_eip"}

MsrIndices ==
  {PutMsrs(TRUE)[i][1] : i \in 1 .. Len(PutMsrs(TRUE))}
    \cup {GetMsrs(TRUE)[i][1] : i \in 1 .. Len(GetMsrs(TRUE))}

\* lines 132-154 and 230-252: the segment registers, in the order written
SegNames == <<"R_CS", "R_DS", "R_ES", "R_SS", "R_FS", "R_GS", "tr", "ldt">>

\* lines 118-130 and 254-264: the guest fields kept in control-structure
\* fields
VmcsFields ==
  <<"idt.limit", "idt.base", "gdt.limit", "gdt.base", "cr3", "efer", "cr4",
    "cr0">>

\* x86_is_real: protected mode is bit 0 of CR0
x86_is_real(env) == env.ctl["cr0"] % 2 = 0

\* the host calls of one step of put or get that can be made to fail
SyncSteps == {"regs", "xsave", "segments", "msrs", "dr"}

\* the last index at which pairs names x in position k, or 0
LastAt(pairs, k, x) ==
  LET hits == {i \in 1 .. Len(pairs) : pairs[i][k] = x}
  IN  IF hits = {} THEN 0 ELSE CHOOSE i \in hits : \A j \in hits : j <= i

\* wreg for each pair in turn
WriteRegs(host_reg, env_reg, pairs) ==
  [h \in DOMAIN host_reg |->
     IF LastAt(pairs, 1, h) = 0 THEN host_reg[h]
     ELSE env_reg[pairs[LastAt(pairs, 1, h)][2]]]

\* rreg for each pair in turn
ReadRegs(env_reg, host_reg, pairs) ==
  [g \in DOMAIN env_reg |->
     IF LastAt(pairs, 2, g) = 0 THEN env_reg[g]
     ELSE host_reg[pairs[LastAt(pairs, 2, g)][1]]]

\* the calls made for the pairs
Calls(name, pairs) == [i \in 1 .. Len(pairs) |-> <<name, pairs[i][1]>>]

\* the value hv_vcpu_write_msr is given
MsrSource(env, src) ==
  CASE src = "segs[R_GS].base" -> env.segs["R_GS"].base
    [] src = "segs[R_FS].base" -> env.segs["R_FS"].base
    [] OTHER -> env.msr[src]

\* one step of a synchronisation: st is [env, host, log, aborted]
AbortAt(st, call) ==
  [st EXCEPT !.aborted = TRUE, !.log = Append(st.log, <<"abort", call>>)]

\* lines 300-319, or 327-334: wreg aborts when the host call fails
PutRegsStep(st, pairs, fails) ==
  IF st.aborted THEN st
  ELSE IF fails
  THEN AbortAt([st EXCEPT !.log = Append(st.log, <<"wreg", pairs[1][1]>>)],
               "wreg")
  ELSE [st EXCEPT !.host.reg = WriteRegs(st.host.reg, st.env.reg, pairs),
                  !.log = st.log \o Calls("wreg", pairs)]

\* faulty variant of lines 75-110: a failed write of the buffer is ignored
PutXsaveStep_IgnoresFailure(st, fails) ==
  IF st.aborted THEN st
  ELSE [st EXCEPT !.log = Append(st.log, <<"hv_vcpu_write_fpstate", "data">>),
                  !.host.fp = IF fails THEN st.host.fp
                              ELSE hvf_put_xsave_pack(st.env.fpu)]

\* lines 75-110: hvf_put_xsave
PutXsaveStep(st, fails) ==
  IF st.aborted THEN st
  ELSE IF fails
  THEN AbortAt([st EXCEPT !.log = Append(st.log, <<"hv_vcpu_write_fpstate",
                                                   "data">>)],
               "hv_vcpu_write_fpstate")
  ELSE [st EXCEPT !.log = Append(st.log, <<"hv_vcpu_write_fpstate", "data">>),
                  !.host.fp = hvf_put_xsave_pack(st.env.fpu)]

\* lines 113-157: hvf_put_segments
PutSegmentsStep(st, fails) ==
  IF st.aborted THEN st
  ELSE IF fails
  THEN AbortAt([st EXCEPT !.log = Append(st.log, <<"wvmcs", VmcsFields[1]>>)],
               "wvmcs")
  ELSE [st EXCEPT
          !.host.vmcs = [f \in DOMAIN st.host.vmcs |-> st.env.ctl[f]],
          !.host.segs =
             [n \in DOMAIN st.host.segs |->
                hvf_set_segment(st.env.segs[n], x86_is_real(st.env),
                                n = "tr")],
          !.log = st.log
                    \o [i \in 1 .. Len(VmcsFields) |->
                          <<"wvmcs", VmcsFields[i]>>]
                    \o [i \in 1 .. Len(SegNames) |->
                          <<"vmx_write_segment_descriptor", SegNames[i]>>]
                    \o <<<<"hv_vcpu_flush", "">>>>]

\* lines 159-182: hvf_put_msrs; the result of hv_vcpu_write_msr is not
\* looked at
PutMsrsStep(st, target64, fails) ==
  IF st.aborted THEN st
  ELSE LET pairs == PutMsrs(target64)
       IN  [st EXCEPT
              !.host.msr =
                 IF fails THEN st.host.msr
                 ELSE [x \in DOMAIN st.host.msr |->
                         IF LastAt(pairs, 1, x) = 0 THEN st.host.msr[x]
                         ELSE MsrSource(st.env,
                                        pairs[LastAt(pairs, 1, x)][2])],
              !.log = st.log \o Calls("hv_vcpu_write_msr", pairs)
                        \o <<<<"hv_vm_sync_tsc", "tsc">>>>]

\* lines 295-337; fail is the step whose host calls fail, or "none"
hvf_put_registers(env, host, target64, fail) ==
  PutRegsStep(
    PutMsrsStep(
      PutSegmentsStep(
        PutXsaveStep(
          PutRegsStep([env |-> env, host |-> host, log |-> <<>>,
                       aborted |-> FALSE],
                      PutRegs, fail = "regs"),
          fail = "xsave"),
        fail = "segments"),
      target64, fail = "msrs"),
    PutDebugRegs, fail = "dr")

\* lines 345-363, 366, or 371-378: rreg aborts when the host call fails
GetRegsStep(st, pairs, fails) ==
  IF st.aborted THEN st
  ELSE IF fails
  THEN AbortAt([st EXCEPT !.log = Append(st.log, <<"rreg", pairs[1][1]>>)],
               "rreg")
  ELSE [st EXCEPT !.env.reg = ReadRegs(st.env.reg, st.host.reg, pairs),
                  !.log = st.log \o Calls("rreg", pairs)]

\* lines 185-220: hvf_get_xsave
GetXsaveStep(st, fails) ==
  IF st.aborted THEN st
  ELSE IF fails
  THEN AbortAt([st EXCEPT !.log = Append(st.log, <<"hv_vcpu_read_fpstate",
                                                   "data">>)],
               "hv_vcpu_read_fpstate")
  ELSE [st EXCEPT !.log = Append(st.log, <<"hv_vcpu_read_fpstate", "data">>),
                  !.env.fpu = hvf_get_xsave_unpack(st.host.fp)]

\* lines 222-265: hvf_get_segments
GetSegmentsStep(st, fails) ==
  IF st.aborted THEN st
  ELSE IF fails
  THEN AbortAt([st EXCEPT !.env.interrupt_injected = -1,
                          !.log = Append(st.log,
                                         <<"vmx_read_segment_descriptor",
                                           SegNames[1]>>)],
               "rvmcs")
  ELSE [st EXCEPT
          !.env.interrupt_injected = -1,
          !.env.segs = [n \in DOMAIN st.env.segs |->
                          hvf_get_segment(st.host.segs[n])],
          !.env.ctl = [f \in DOMAIN st.env.ctl |-> st.host.vmcs[f]],
          !.env.cr2 = 0,
          !.log = st.log
                    \o [i \in 1 .. Len(SegNames) |->
                          <<"vmx_read_segment_descriptor", SegNames[i]>>]
                    \o [i \in 1 .. Len(VmcsFields) |->
                          <<"rvmcs", VmcsFields[i]>>]]

\* lines 267-293: hvf_get_msrs; the result of hv_vcpu_read_msr is not looked
\* at, so after a failed call tmp holds no defined value (junk) and the
\* fields read in place keep theirs; now is rdtscp() plus the TSC offset
GetMsrsStep(st, target64, fails, junk, now) ==
  IF st.aborted THEN st
  ELSE LET pairs == GetMsrs(target64)
       IN  [st EXCEPT
              !.env.msr =
                 [f \in DOMAIN st.env.msr |->
                    IF LastAt(pairs, 2, f) = 0 THEN st.env.msr[f]
                    ELSE IF ~fails
                    THEN st.host.msr[pairs[LastAt(pairs, 2, f)][1]]
                    ELSE IF f \in ThroughTmp THEN junk
                    ELSE st.env.msr[f]],
              !.env.tsc = now,
              !.log = st.log \o Calls("hv_vcpu_read_msr", pairs)
                        \o <<<<"rvmcs", "VMCS_TSC_OFFSET">>>>]

\* lines 339-381
hvf_get_registers(env, host, target64, fail, junk, now) ==
  GetRegsStep(
    GetMsrsStep(
      GetSegmentsStep(
        GetRegsStep(
          GetXsaveStep(
            GetRegsStep([env |-> env, host |-> host, log |-> <<>>,
                         aborted |-> FALSE],
                        GetRegs, fail = "regs"),
            fail = "xsave"),
          GetXcr0, fail = "regs"),
        fail = "segments"),
      target64, fail = "msrs", junk, now),
    GetDebugRegs, fail = "dr")

\* the position of x in the sequence names
IndexOf(names, x) == CHOOSE i \in 1 .. Len(names) : names[i] = x

\* a guest state with the value MaxVal in register hot and zero in the other
\* registers, the given CR2 and injected-interrupt number, and fixed segments,
\* control registers, FPU state and MSRs
GuestState(hot, cr2, injected) ==
  [reg |-> [g \in GuestRegs |-> IF g = hot THEN MaxVal ELSE 0],
   fpu |-> [fpuc |-> 895, fpus |-> 0, fpstt |-> 0, fpop |-> 0,
            fptags |-> [x \in 0 .. 7 |-> 1],
            banks |-> [b \in XsaveBanks |-> 0]],
   segs |-> [n \in {SegNames[i] : i \in 1 .. Len(SegNames)} |->
               [selector |-> IF n = "ldt" THEN 0 ELSE IndexOf(SegNames, n),
                base |-> IndexOf(SegNames, n),
                limit |-> IndexOf(SegNames, n) + 1,
                flags |-> [type |-> 11, s |-> 1, dpl |-> 0, p |-> 1,
                           avl |-> 0, l |-> 0, b |-> 1, g |-> 1,
                           other |-> 0]]],
   ctl |-> [f \in {VmcsFields[i] : i \in 1 .. Len(VmcsFields)} |->
              IF f = "cr0" THEN 1 ELSE IndexOf(VmcsFields, f)],
   cr2 |-> cr2,
   interrupt_injected |-> injected,
   msr |-> [f \in MsrFields |-> LastAt(PutMsrs(TRUE), 2, f)],
   tsc |-> 0]

\* the host state of a new virtual CPU
NewHost ==
  [reg |-> [h \in HostRegs |-> 0],
   fp |-> ZeroXsave,
   vmcs |-> [f \in {VmcsFields[i] : i \in 1 .. Len(VmcsFields)} |-> 0],
   segs |-> [n \in {SegNames[i] : i \in 1 .. Len(SegNames)} |->
               NoHostSegment],
   msr |-> [x \in MsrIndices |-> 0]]

\* the guest state is written to the host before the guest is resumed
put_registers ==
  \E fail \in SyncSteps \cup {"none"} :
    LET r == hvf_put_registers(sync.env, sync.host, sync.target64, fail)
    IN  /\ sync.pc = "guest"
        /\ sync' = [sync EXCEPT
                      !.pc = IF r.aborted THEN "aborted" ELSE "on_host",
                      !.op = "put",
                      !.env0 = sync.env,
                      !.env = r.env,
                      !.host = r.host,
                      !.put_log = r.log,
                      !.put_failed = fail]
        /\ UNCHANGED <<interrupt_request, eflags_if, halted, host_if, ev,
                       race, seg, xs, rp>>
        /\ UNCHANGED injector_vars

\* the guest runs and changes one of a few registers, or its FPU status word
\* (to 0x0800)
guest_changes_state ==
  \E h \in {"RAX", "RFLAGS", "DR7", "fp"} :
    /\ sync.pc = "on_host"
    /\ ~sync.touched
    /\ sync' = [sync EXCEPT
                  !.touched = TRUE,
                  !.host.reg = IF h = "fp" THEN @
                               ELSE [@ EXCEPT ![h] = MaxVal - @],
                  !.host.fp = IF h = "fp"
                              THEN [@ EXCEPT !.w0 = (@ % 65536) + 2048 * 65536]
                              ELSE @]
    /\ UNCHANGED <<interrupt_request, eflags_if, halted, host_if, ev, race,
                   seg, xs, rp>>
    /\ UNCHANGED injector_vars

\* the host state is read back after a VM exit
get_registers ==
  \E fail \in SyncSteps \cup {"none"} :
  \E junk \in IF fail = "msrs" THEN Values ELSE {0} :
  \E now \in IF fail \in {"regs", "xsave", "segments"} THEN {0} ELSE Values :
    LET r == hvf_get_registers(sync.env, sync.host, sync.target64, fail,
                               junk, now)
    IN  /\ sync.pc = "on_host"
        /\ sync' = [sync EXCEPT
                      !.pc = IF r.aborted THEN "aborted" ELSE "back",
                      !.op = "get",
                      !.env1 = sync.env,
                      !.env = r.env,
                      !.host = r.host,
                      !.get_log = r.log,
                      !.get_failed = fail]
        /\ UNCHANGED <<interrupt_request, eflags_if, halted, host_if, ev,
                       race, seg, xs, rp>>
        /\ UNCHANGED injector_vars

InitSync ==
  /\ InitInjector
  /\ interrupt_request = {}
  /\ eflags_if = FALSE
  /\ halted = FALSE
  /\ host_if = FALSE
  /\ ev = NoEvents
  /\ race = Idle
  /\ seg = Idle
  /\ xs = Idle
  /\ rp = Idle
  /\ \E hot \in GuestRegs, cr2 \in {0, MaxVal}, injected \in {-1, MaxVal},
        target64 \in BOOLEAN :
       sync = [pc |-> "guest", op |-> "none", target64 |-> target64,
               env |-> GuestState(hot, cr2, injected),
               env0 |-> GuestState(hot, cr2, injected),
               env1 |-> GuestState(hot, cr2, injected),
               host |-> NewHost, touched |-> FALSE,
               put_log |-> <<>>, put_failed |-> "none",
               get_log |-> <<>>, get_failed |-> "none"]

NextSync ==
  \/ put_registers
  \/ guest_changes_state
  \/ get_registers

SpecSync == InitSync /\ [][NextSync]_vars

\* the arguments of the calls of one name in a log, in order
CallsOf(log, name) ==
  LET RECURSIVE pick(_)
      pick(i) == IF i > Len(log) THEN <<>>
                 ELSE IF log[i][1] = name THEN <<log[i][2]>> \o pick(i + 1)
                 ELSE pick(i + 1)
  IN  pick(1)

Elements(q) == {q[i] : i \in 1 .. Len(q)}

\* the step of the last operation whose host calls failed
LastFailed == IF sync.op = "put" THEN sync.put_failed
              ELSE IF sync.op = "get" THEN sync.get_failed
              ELSE "none"

\* C17: when a host call fails during put or get, the operation does not
\* return: the process is terminated.
C17_FailureIsFatal ==
  LastFailed # "none" => sync.pc = "aborted"

\* the operation that returns after a failed MSR call
C17_ReturnsAfterFailedMsr ==
  /\ sync.op = "put"
  /\ sync.put_failed = "msrs"
  /\ sync.pc = "on_host"
  /\ Len(CallsOf(sync.put_log, "wreg")) = Len(PutRegs) + Len(PutDebugRegs)

\* C18: a failed write of the extended-state buffer in put terminates the
\* process with no segment, MSR or debug-register call made; a failed read
\* in get terminates it with the guest FPU state as it was.
C18_XsaveFailureFatal ==
  /\ (sync.op = "put" /\ sync.put_failed = "xsave") =>
       /\ sync.pc = "aborted"
       /\ CallsOf(sync.put_log, "wvmcs") = <<>>
       /\ CallsOf(sync.put_log, "vmx_write_segment_descriptor") = <<>>
       /\ CallsOf(sync.put_log, "hv_vcpu_write_msr") = <<>>
       /\ Elements(CallsOf(sync.put_log, "wreg"))
            \cap Elements([i \in 1 .. Len(PutDebugRegs) |->
                             PutDebugRegs[i][1]]) = {}
       /\ sync.host.msr = NewHost.msr
       /\ sync.host.segs = NewHost.segs
  /\ (sync.op = "get" /\ sync.get_failed = "xsave") =>
       /\ sync.pc = "aborted"
       /\ sync.env.fpu = sync.env1.fpu
       /\ sync.env.fpu = sync.env0.fpu

C18_Witness ==
  /\ sync.op = "get"
  /\ sync.get_failed = "xsave"
  /\ sync.pc = "aborted"
  /\ sync.touched
  /\ hvf_get_xsave_unpack(sync.host.fp) # sync.env.fpu
  /\ sync.env.fpu = sync.env0.fpu

\* the registers the MSR synchroniser is said to copy
ListedMsrs(target64) ==
  {"MSR_IA32_SYSENTER_CS", "MSR_IA32_SYSENTER_ESP", "MSR_IA32_SYSENTER_EIP",
   "MSR_STAR", "MSR_FSBASE", "MSR_GSBASE"}
    \cup (IF target64
          THEN {"MSR_CSTAR", "MSR_KERNELGSBASE", "MSR_FMASK", "MSR_LSTAR"}
          ELSE {})

MsrsWritten == CallsOf(sync.put_log, "hv_vcpu_write_msr")
MsrsRead == CallsOf(sync.get_log, "hv_vcpu_read_msr")

\* C19 as stated: get reads exactly the registers put writes, the listed
\* ones, each once.
C19_Original ==
  sync.pc = "back" =>
    /\ Elements(MsrsWritten) = ListedMsrs(sync.target64)
    /\ Elements(MsrsRead) = Elements(MsrsWritten)
    /\ Len(MsrsWritten) = Cardinality(Elements(MsrsWritten))
    /\ Len(MsrsRead) = Cardinality(Elements(MsrsRead))

\* C19: put writes the listed registers, each once; get reads the listed
\* registers other than FS-BASE and GS-BASE, and the APIC base, each once.
C19_Amended ==
  sync.pc = "back" =>
    /\ Elements(MsrsWritten) = ListedMsrs(sync.target64)
    /\ Elements(MsrsRead) =
         (ListedMsrs(sync.target64) \ {"MSR_FSBASE", "MSR_GSBASE"})
           \cup {"MSR_IA32_APICBASE"}
    /\ Len(MsrsWritten) = Cardinality(Elements(MsrsWritten))
    /\ Len(MsrsRead) = Cardinality(Elements(MsrsRead))

C19_Witness ==
  /\ sync.pc = "back"
  /\ sync.target64
  /\ "MSR_LSTAR" \in Elements(MsrsRead)
  /\ "MSR_IA32_APICBASE" \in Elements(MsrsRead)
  /\ "MSR_FSBASE" \in Elements(MsrsWritten)
  /\ "MSR_FSBASE" \notin Elements(MsrsRead)

\* put and get both ran to the end with no failed call and the host state is
\* as put left it
CleanRoundTrip ==
  /\ sync.pc = "back"
  /\ ~sync.touched
  /\ sync.put_failed = "none"
  /\ sync.get_failed = "none"

\* C20: put followed by get on an untouched host gives back the general
\* registers, flags, instruction pointer, XCR0 and DR0..DR7, and changes
\* nothing of the guest other than registers, segments, extended state and
\* MSRs.
C20_PutGetPreserves ==
  CleanRoundTrip =>
    /\ sync.env.reg = sync.env0.reg
    /\ sync.env.cr2 = sync.env0.cr2
    /\ sync.env.interrupt_injected = sync.env0.interrupt_injected

\* the round trip that loses CR2
C20_Cr2Lost ==
  /\ CleanRoundTrip
  /\ sync.env0.cr2 = MaxVal
  /\ sync.env.cr2 = 0
  /\ sync.env.reg = sync.env0.reg

\* the registers themselves do come back
C20_RegistersRoundTrip ==
  CleanRoundTrip => sync.env.reg = sync.env0.reg

(* ------------- the checks of hvf_process_events in another order ------- *)

\* the five checks of lines 475-497, in the order of the code
CodeOrder == <<"INIT", "POLL", "HALTED", "SIPI", "TPR">>

\* every order of the five checks
CheckOrders ==
  {o \in [1 .. Len(CodeOrder) -> Elements(CodeOrder)] :
     \A i, j \in 1 .. Len(CodeOrder) : o[i] = o[j] => i = j}

\* one check, by name
RunCheck(name, st, resp, if_flag) ==
  CASE name = "INIT" -> InitCheck(st)
    [] name = "POLL" -> PollCheck(st, resp)
    [] name = "HALTED" -> HaltedCheck(st, if_flag)
    [] name = "SIPI" -> SipiCheck(st)
    [] OTHER -> TprCheck(st)

\* the checks from position i of the order on
RECURSIVE RunChecks(_, _, _, _, _)
RunChecks(order, i, st, resp, if_flag) ==
  IF i > Len(order) THEN st
  ELSE RunChecks(order, i + 1, RunCheck(order[i], st, resp, if_flag), resp,
                 if_flag)

\* the locals at the start of the call that just ran
CallEntry ==
  [irq |-> ev.irq, halted |-> ev.halted, calls |-> <<>>, poll |-> <<>>]

\* what apic_poll_irq found in the call that just ran
CallResponse == IF ev.poll = <<>> THEN "unchanged" ELSE ev.poll[1]

\* the call that just ran, with its checks in this order instead
Reordered(order) == RunChecks(order, 1, CallEntry, CallResponse, eflags_if)

\* this order gives the request bits, halted flag and return value that the
\* code gave
SameOutcome(order) ==
  /\ Reordered(order).irq = interrupt_request
  /\ Reordered(order).halted = halted
  /\ Reordered(order).halted = ev.ret

\* where a check stands in an order
PlaceOf(order, name) == CHOOSE i \in 1 .. Len(order) : order[i] = name

\* C21 as stated: the checks in any order give the request bits, halted flag
\* and return value of the order of the code.
C21_Original ==
  ev.ran => \A order \in CheckOrders : SameOutcome(order)

\* C21: the checks in any order that keeps the POLL check before the halted
\* check give the request bits, halted flag and return value of the order of
\* the code; the request bits are the same in every order.
C21_Amended ==
  ev.ran =>
    \A order \in CheckOrders :
      /\ PlaceOf(order, "POLL") < PlaceOf(order, "HALTED")
           => SameOutcome(order)
      /\ Reordered(order).irq = interrupt_request

C21_Witness ==
  /\ ev.ran
  /\ ev.irq = {"POLL", "TPR", "INIT"}
  /\ ev.poll = <<"pending">>
  /\ ev.halted
  /\ eflags_if
  /\ ~halted
  /\ SameOutcome(<<"TPR", "SIPI", "POLL", "HALTED", "INIT">>)
  /\ Reordered(<<"TPR", "HALTED", "POLL", "SIPI", "INIT">>).halted

\* the callbacks of lines 477, 490 and 495
Callbacks == {"do_cpu_init", "do_cpu_sipi", "apic_handle_tpr_access_report"}

\* the places in the calls of the last hvf_process_events where name stands
PlacesOf(name) == {i \in 1 .. Len(ev.calls) : ev.calls[i] = name}

\* before place i there is a hvf_cpu_synchronize_state with no callback
\* between it and i
SyncedBefore(i) ==
  \E j \in PlacesOf("hvf_cpu_synchronize_state") :
    /\ j < i
    /\ \A k \in (j + 1) .. (i - 1) : ev.calls[k] \notin Callbacks

\* C22: each of do_cpu_init, do_cpu_sipi and apic_handle_tpr_access_report
\* is called once when its request is set and not at all otherwise, each
\* call follows a hvf_cpu_synchronize_state of its own handler, and the
\* instruction pointer and access type given to the TPR report are read
\* after that synchronisation.
C22_SyncBeforeCallback ==
  ev.ran =>
    /\ CallCount(ev.calls, "do_cpu_init") =
         (IF "INIT" \in ev.irq THEN 1 ELSE 0)
    /\ CallCount(ev.calls, "do_cpu_sipi") =
         (IF "SIPI" \in ev.irq THEN 1 ELSE 0)
    /\ CallCount(ev.calls, "apic_handle_tpr_access_report") =
         (IF "TPR" \in ev.irq THEN 1 ELSE 0)
    /\ \A c \in Callbacks : \A i \in PlacesOf(c) : SyncedBefore(i)
    /\ CallCount(ev.calls, "hvf_cpu_synchronize_state") =
         Cardinality(ev.irq \cap {"INIT", "SIPI", "TPR"})
    /\ \A i \in PlacesOf("env->eip") \cup PlacesOf("env->tpr_access_type") :
         /\ SyncedBefore(i)
         /\ \E r \in PlacesOf("apic_handle_tpr_access_report") : i < r
    /\ "TPR" \in ev.irq =>
         /\ PlacesOf("env->eip") # {}
         /\ PlacesOf("env->tpr_access_type") # {}

C22_Witness ==
  /\ ev.ran
  /\ ev.irq = {"INIT", "SIPI", "TPR"}
  /\ ev.calls = <<"hvf_cpu_synchronize_state", "do_cpu_init",
                  "hvf_cpu_synchronize_state", "do_cpu_sipi",
                  "hvf_cpu_synchronize_state", "env->eip",
                  "env->tpr_access_type", "apic_handle_tpr_access_report">>

\* C23: in the packed buffer the low half of word 0 is the control word, the
\* high half is the status word with the top of stack in its bits 11..13,
\* bit x of word 1 is set exactly when fptags[x] is 0, and the high half of
\* word 1 is the opcode.
C23_PackedWords ==
  xs.pc = "packed" =>
    /\ xs.data.w0 % 65536 = xs.env.fpuc
    /\ ((xs.data.w0 \div 65536) \div 2048) % 8 = xs.env.fpstt
    /\ \A x \in 0 .. 7 :
         ((xs.data.w1 \div (2 ^ x)) % 2 = 1) <=> (xs.env.fptags[x] = 0)
    /\ (xs.data.w1 \div 65536) % 65536 = xs.env.fpop

\* the packed word 0 with the top of stack in the control-word half
C23_TopOfStackInControlWord ==
  /\ xs.pc = "packed"
  /\ xs.env.fpuc = 0
  /\ xs.env.fpus = 0
  /\ xs.env.fpstt = 7
  /\ xs.data.w0 = 14336

\* what the packed words do hold: tags and opcode as said, the status word
\* as the guest has it, and the control word OR-ed with the top of stack
C23_PackedWordsAsCoded ==
  xs.pc = "packed" =>
    /\ xs.data.w0 % 65536 = BitOr(xs.env.fpuc, xs.env.fpstt * 2048)
    /\ (xs.data.w0 \div 65536) % 65536 = xs.env.fpus
    /\ \A x \in 0 .. 7 :
         ((xs.data.w1 \div (2 ^ x)) % 2 = 1) <=> (xs.env.fptags[x] = 0)
    /\ (xs.data.w1 \div 65536) % 65536 = xs.env.fpop

(* ------------------ frame of the injector: entry fields ---------------- *)

\* the cycle that just ran reinjected the event of the vectoring info: the
\* info is valid and is not an NMI held back by NMI blocking after a task
\* switch
Reinjected == cycle.ran /\ idt_info.valid /\ ~BlockedNmiVectoring

\* C24: a cycle writes the entry error-code field exactly when it reinjects
\* an event whose vectoring info has the error-code-valid bit set; it writes
\* it once, with the vectoring error code.
C24_ErrorCodeWrite ==
  cycle.ran =>
    Written(cycle.log, "ENTRY_EXCEPTION_ERROR") =
      (IF Reinjected /\ idt_info.errcode THEN <<idt_error>> ELSE <<>>)

C24_Witness ==
  /\ Reinjected
  /\ idt_info.errcode
  /\ idt_info.type = "HWEXCEPTION"
  /\ idt_error = MaxErr
  /\ Written(cycle.log, "ENTRY_EXCEPTION_ERROR") = <<MaxErr>>

\* the reinjected event is software-originated: a software interrupt, a
\* privileged software exception, a software exception, or #BP or #OF
SoftwareOriginated ==
  \/ idt_info.type = "SWINTR"
  \/ idt_info.type = "PRIV_SWEXCEPTION"
  \/ idt_info.type = "SWEXCEPTION"
  \/ idt_info.vector = EXCEPTION_BP
  \/ idt_info.vector = EXCEPTION_OF

\* C25: a cycle writes the entry instruction-length field exactly when it
\* reinjects a software-originated event, and every value it writes is the
\* exit instruction length.
C25_InstLengthWrite ==
  cycle.ran =>
    LET w == Written(cycle.log, "ENTRY_INST_LENGTH")
    IN  /\ (w # <<>>) <=> (Reinjected /\ SoftwareOriginated)
        /\ \A i \in 1 .. Len(w) : w[i] = exit_ins_len

C25_Witness ==
  /\ Reinjected
  /\ idt_info.type = "PRIV_SWEXCEPTION"
  /\ idt_info.vector = NMI_VEC
  /\ exit_ins_len = MaxInsLen
  /\ Written(cycle.log, "ENTRY_INST_LENGTH") = <<MaxInsLen>>

\* C26: when a cycle ends with the NMI request still set it has armed
\* NMI-window exiting, and when it ends with the hardware-interrupt request
\* still set it has armed interrupt-window exiting.
C26_NoLostWakeup ==
  cycle.ran =>
    /\ "NMI" \in interrupt_request =>
         /\ Armed(cycle, "NMI_WINDOW_EXITING")
         /\ "NMI_WINDOW_EXITING" \in proc_ctls
    /\ "HARD" \in interrupt_request =>
         /\ Armed(cycle, "INT_WINDOW_EXITING")
         /\ "INT_WINDOW_EXITING" \in proc_ctls

C26_Witness ==
  /\ cycle.ran
  /\ BlockedNmiVectoring
  /\ interrupt_request = {"NMI", "HARD"}
  /\ eflags_if
  /\ interruptable
  /\ cycle.ctls = {}
  /\ proc_ctls = {"NMI_WINDOW_EXITING", "INT_WINDOW_EXITING"}
  /\ InjectionWrites(cycle) = <<>>

\* the cycle that just ran had nothing to reinject and nothing to inject: no
\* reinjection, no NMI that is requested and allowed with no event queued,
\* and no line obtained from the interrupt controller
NothingToInject ==
  /\ cycle.ran
  /\ ~Reinjected
  /\ ~("NMI" \in cycle.irq /\ ~cycle.blocking /\ ~idt_info.valid)
  /\ cycle.pic = <<>> \/ cycle.pic[1] < 0

\* C29: a cycle leaves every window-exiting bit that was set before it set,
\* over two cycles in a row as well, and a cycle with nothing to reinject or
\* inject does not write the entry-injection field.
C29_OnlyAdds ==
  /\ cycle.ran => cycle.ctls \subseteq proc_ctls
  /\ (prev_cycle.ran /\ cycle.ran) =>
       /\ prev_cycle.ctls \subseteq cycle.ctls
       /\ \A b \in {"NMI_WINDOW_EXITING", "INT_WINDOW_EXITING"} :
            Armed(prev_cycle, b) => b \in proc_ctls
  /\ NothingToInject => InjectionWrites(cycle) = <<>>

C29_Witness ==
  /\ prev_cycle.ran
  /\ cycle.ran
  /\ Armed(prev_cycle, "NMI_WINDOW_EXITING")
  /\ Armed(prev_cycle, "INT_WINDOW_EXITING")
  /\ prev_cycle.ctls = {}
  /\ cycle.ctls = {"NMI_WINDOW_EXITING", "INT_WINDOW_EXITING"}
  /\ proc_ctls = {"NMI_WINDOW_EXITING", "INT_WINDOW_EXITING"}
  /\ NothingToInject

(* ------- the run loop: hvf_process_events and hvf_inject_interrupts ---- *)

\* the requests raised while the loop runs
LoopRequests == {"NMI", "HARD", "POLL"}

\* another thread raises a request between two calls of the owning thread
signal_request ==
  \E mask \in LoopRequests :
    /\ interrupt_request' = interrupt_request \cup {mask}
    /\ cycle' = NoCycle
    /\ prev_cycle' = NoCycle
    /\ ev' = NoEvents
    /\ UNCHANGED <<host_vars, nmi_blocking, proc_ctls, eflags_if,
                   interruptable, halted, host_if, race, seg, xs, sync, rp>>

\* the guest runs and exits: the host reports new vectoring info, exit
\* reason, NMI blocking or interrupt-enable flag, or the guest has halted; a
\* step changes one of them
vm_exit ==
  /\ \/ /\ \E v \in BOOLEAN : idt_info' = [idt_info EXCEPT !.valid = v]
        /\ UNCHANGED <<exit_reason, nmi_blocking, host_if, halted>>
     \/ /\ \E t \in {"NMI", "HWINTR"} :
             idt_info' = [idt_info EXCEPT !.type = t]
        /\ UNCHANGED <<exit_reason, nmi_blocking, host_if, halted>>
     \/ /\ exit_reason' \in ExitReasons
        /\ UNCHANGED <<idt_info, nmi_blocking, host_if, halted>>
     \/ /\ nmi_blocking' \in BOOLEAN
        /\ UNCHANGED <<idt_info, exit_reason, host_if, halted>>
     \/ /\ host_if' \in BOOLEAN
        /\ UNCHANGED <<idt_info, exit_reason, nmi_blocking, halted>>
     \/ /\ halted' = TRUE
        /\ UNCHANGED <<idt_info, exit_reason, nmi_blocking, host_if>>
  /\ cycle' = NoCycle
  /\ prev_cycle' = NoCycle
  /\ ev' = NoEvents
  /\ UNCHANGED <<exit_ins_len, idt_error, proc_ctls, interrupt_request,
                 eflags_if, interruptable, race, seg, xs, sync, rp>>

NextLoop ==
  \/ hvf_process_events
  \/ hvf_inject_interrupts
  \/ signal_request
  \/ vm_exit

SpecLoop == Init /\ [][NextLoop]_vars

\* the last thing written to the entry-injection field by a cycle is the NMI
WroteNmiLast(c) ==
  /\ InjectionWrites(c) # <<>>
  /\ InjectionWrites(c)[Len(InjectionWrites(c))] = NmiInfo

UnblockedCycle == cycle.ran /\ ~cycle.blocking /\ ~idt_info.valid

\* an injector cycle has just injected the requested NMI and cleared the
\* request
NmiDelivered ==
  /\ cycle.ran
  /\ "NMI" \in cycle.irq
  /\ WroteNmiLast(cycle)
  /\ "NMI" \notin interrupt_request

\* C28: from a state with the NMI request set, if a later injector cycle runs
\* with NMI not blocked and no valid vectoring info, then an injector cycle
\* injects the NMI and clears the request.
C28_NmiDeliveredEventually ==
  []("NMI" \in interrupt_request => (<>UnblockedCycle => <>NmiDelivered))

\* the NMI is injected in an unblocked cycle after an earlier cycle had to arm
\* NMI-window exiting for it
C28_Witness ==
  /\ NmiDelivered
  /\ UnblockedCycle
  /\ "NMI_WINDOW_EXITING" \in cycle.ctls
  /\ "HARD" \in interrupt_request

(* ------------------ the replay clock: replay-time.c -------------------- *)

\* the longest log and the largest clock value of the model
MaxLog == 3
MaxClock == 1

\* the first clock event id and the number of clock kinds
EVENT_CLOCK == 1
REPLAY_CLOCK_COUNT == 2

ClockKinds == 0 .. (REPLAY_CLOCK_COUNT - 1)
ClockValues == 0 .. MaxClock

\* an event of the log: its id byte and, for a clock event, its qword
ClockEvents ==
  {[id |-> EVENT_CLOCK + k, val |-> c] : k \in ClockKinds, c \in ClockValues}
OtherEvents ==
  {[id |-> i, val |-> 0] : i \in {0, EVENT_CLOCK + REPLAY_CLOCK_COUNT}}
ReplayEvents == ClockEvents \cup OtherEvents

ReplayLogs == UNION {[1 .. n -> ReplayEvents] : n \in 0 .. MaxLog}

NoClockCall ==
  [op |-> "none", kind |-> 0, clock |-> 0, ret |-> 0, returned |-> FALSE]

\* replay_state.data_kind: the id of the next event of the log, -1 when the
\* log is over
data_kind(r) == IF r.pos <= Len(r.log) THEN r.log[r.pos].id ELSE -1

replay_next_event_is(r, event) == data_kind(r) = event

replay_get_qword(r) == r.log[r.pos].val

replay_finish_event(r) == [r EXCEPT !.pos = @ + 1]

replay_put_event_qword(r, event, qword) ==
  [r EXCEPT !.log = Append(@, [id |-> event, val |-> qword])]

\* the process is gone: a failed assertion, or exit(1)
Aborted(r, op, kind, clock) ==
  [r EXCEPT !.pc = "aborted",
            !.before = [pos |-> r.pos, len |-> Len(r.log),
                        cached |-> r.cached],
            !.last = [op |-> op, kind |-> kind, clock |-> clock, ret |-> 0,
                      returned |-> FALSE]]

Returned(r, before, op, kind, clock, ret) ==
  [r EXCEPT !.before = [pos |-> before.pos, len |-> Len(before.log),
                        cached |-> before.cached],
            !.last = [op |-> op, kind |-> kind, clock |-> clock, ret |-> ret,
                      returned |-> TRUE]]

\* faulty variant of replay_read_next_clock: the value is cached under the
\* kind after the one read
replay_read_next_clock_WrongSlot(r, kind) ==
  LET read_kind == data_kind(r) - EVENT_CLOCK
      clock == replay_get_qword(r)
  IN  [replay_finish_event(r) EXCEPT
         !.cached[(read_kind + 1) % REPLAY_CLOCK_COUNT] = clock]

\* lines 34-46, entered with read_kind == kind (line 38)
replay_read_next_clock(r, kind) ==
  LET read_kind == data_kind(r) - EVENT_CLOCK
      clock == replay_get_qword(r)
  IN  [replay_finish_event(r) EXCEPT !.cached[read_kind] = clock]

\* faulty variant of ReadClock: the cached value is read before the event
ReadClock_StaleValue(r, kind) ==
  IF ~(r.file /\ r.locked)
  THEN Aborted(r, "read", kind, 0)
  ELSE LET read == replay_next_event_is(r, EVENT_CLOCK + kind)
           after == IF read THEN replay_read_next_clock(r, kind) ELSE r
       IN  Returned(after, r, "read", kind, 0, r.cached[kind])

\* lines 49-67: replay_read_clock(kind)
ReadClock(r, kind) ==
  IF ~(r.file /\ r.locked)
  THEN Aborted(r, "read", kind, 0)
  ELSE LET read == replay_next_event_is(r, EVENT_CLOCK + kind)
           after ==
             IF read
             THEN IF data_kind(r) - EVENT_CLOCK = kind
                  THEN replay_read_next_clock(r, kind)
                  ELSE Aborted(r, "read", kind, 0)
             ELSE r
       IN  IF after.pc = "aborted" THEN after
           ELSE Returned(after, r, "read", kind, 0, after.cached[kind])

\* faulty variant of SaveClock: the event is written whether or not the
\* replay file is open
SaveClock_AlwaysWrites(r, kind, clock) ==
  IF ~r.locked
  THEN Aborted(r, "save", kind, clock)
  ELSE Returned(replay_put_event_qword(r, EVENT_CLOCK + kind, clock),
                r, "save", kind, clock, clock)

\* lines 20-32: replay_save_clock(kind, clock)
SaveClock(r, kind, clock) ==
  IF r.file
  THEN IF ~r.locked
       THEN Aborted(r, "save", kind, clock)
       ELSE Returned(replay_put_event_qword(r, EVENT_CLOCK + kind, clock),
                     r, "save", kind, clock, clock)
  ELSE Returned(r, r, "save", kind, clock, clock)

replay_unchanged ==
  /\ UNCHANGED injector_vars
  /\ UNCHANGED <<interrupt_request, eflags_if, halted, host_if, ev, race,
                 seg, xs, sync>>

\* the clock is read while a log is played
replay_read_clock ==
  /\ rp.pc = "play"
  /\ \E kind \in ClockKinds : rp' = ReadClock(rp, kind)
  /\ replay_unchanged

\* the clock is saved while a log is recorded, or with no replay at all
replay_save_clock ==
  /\ rp.pc \in {"record", "off"}
  /\ Len(rp.log) < MaxLog
  /\ \E kind \in ClockKinds, clock \in ClockValues :
       rp' = SaveClock(rp, kind, clock)
  /\ replay_unchanged

\* the other readers of the log take the event that is next when it is not a
\* clock event
replay_read_other_event ==
  /\ rp.pc = "play"
  /\ rp.file /\ rp.locked
  /\ rp.pos <= Len(rp.log)
  /\ rp.log[rp.pos] \in OtherEvents
  /\ rp' = [replay_finish_event(rp) EXCEPT !.last = NoClockCall]
  /\ replay_unchanged

\* the other writers of the log
replay_save_other_event ==
  /\ rp.pc = "record"
  /\ rp.file /\ rp.locked
  /\ Len(rp.log) < MaxLog
  /\ \E e \in OtherEvents :
       rp' = [rp EXCEPT !.log = Append(@, e), !.last = NoClockCall]
  /\ replay_unchanged

\* replay is off, or a recording starts on an empty log, or a log that was
\* recorded is played from its first event; the caller holds the replay
\* mutex or not
InitReplay ==
  /\ InitInjector
  /\ interrupt_request = {}
  /\ eflags_if = FALSE
  /\ halted = FALSE
  /\ host_if = FALSE
  /\ ev = NoEvents
  /\ race = Idle
  /\ seg = Idle
  /\ xs = Idle
  /\ sync = Idle
  /\ \E mode \in {"off", "record", "play"}, locked \in BOOLEAN,
        log \in ReplayLogs :
       /\ mode # "play" => log = <<>>
       /\ rp = [pc |-> mode, file |-> mode # "off", locked |-> locked,
                log |-> log, pos |-> 1,
                cached |-> [k \in ClockKinds |-> 0],
                before |-> [pos |-> 1, len |-> Len(log),
                            cached |-> [k \in ClockKinds |-> 0]],
                last |-> NoClockCall]

NextReplay ==
  \/ replay_read_clock
  \/ replay_save_clock
  \/ replay_read_other_event
  \/ replay_save_other_event

SpecReplay == InitReplay /\ [][NextReplay]_vars

\* the values of the clock events of a kind among the first n events of a log
RECURSIVE ClocksRead(_, _, _)
ClocksRead(log, n, kind) ==
  IF n = 0 THEN <<>>
  ELSE IF log[n].id = EVENT_CLOCK + kind
       THEN Append(ClocksRead(log, n - 1, kind), log[n].val)
       ELSE ClocksRead(log, n - 1, kind)

\* the value of the clock event of a kind consumed last, the initial cache
\* when there was none
LastClockRead(log, n, kind) ==
  LET read == ClocksRead(log, n, kind)
  IN  IF read = <<>> THEN 0 ELSE read[Len(read)]

====
